---- MODULE Spec2Model ----
(***************************************************************************)
(* State-machine model of the query pipeline of the retrieval-augmented    *)
(* answering engine (rag_system): the on-disk QueryCache, the RAGMonitor   *)
(* run log, the RAGTracer, and AdvancedRAGv2.query with its planner,       *)
(* retrieval orchestrator, re-ranker, context compressor and synthesizer.  *)
(*                                                                         *)
(* Text is modelled as a sequence of one-character strings, so that the    *)
(* substring tests of the analyzer and the planner are computed as the     *)
(* code computes them.  Scores are integers in fixed units (see Rerank).   *)
(* Wall-clock time is an integer number of seconds; file modification      *)
(* times are a separate, strictly increasing filesystem timestamp (the     *)
(* filesystem stamps successive writes with distinct nanosecond times).    *)
(***************************************************************************)
EXTENDS Integers, Sequences, FiniteSets, TLC

VARIABLES
    cfg,          \* configuration fixed at construction (environment variables)
    clock,        \* time.time(), in seconds
    fsTime,       \* filesystem timestamp of the latest write (st_mtime order)
    cacheDir,     \* cache directory: key -> entry file {ts, ttl, payload} + mtime
    lastOp,       \* the latest direct QueryCache call and what it returned
    prevOp,       \* the QueryCache call before it
    pc,           \* position of the running query() call
    run,          \* local variables of the running (or last finished) query()
    runLog,       \* RAGMonitor: lines of rag_runs.jsonl
    metrics,      \* RAGMonitor: rag_metrics.json
    currentTrace, \* RAGTracer.current_trace
    traceFile     \* RAGTracer: lines of traces_YYYYMMDD.jsonl

vars == <<cfg, clock, fsTime, cacheDir, lastOp, prevOp,
          pc, run, runLog, metrics, currentTrace, traceFile>>

cacheVars == <<cacheDir, fsTime>>
pipeVars == <<pc, run, runLog, metrics, currentTrace, traceFile>>

(***************************************************************************)
(* Bounds of the model.                                                    *)
(***************************************************************************)
MaxClock == 2          \* SpecCache: seconds of wall-clock time explored
MaxCalls == 3          \* SpecCache: QueryCache.set/get calls per behaviour
MaxRuns == 2           \* Spec: query() calls per behaviour
MaxPipeClock == 700   \* Spec: seconds of wall-clock time explored

(***************************************************************************)
(* Generic helpers.                                                        *)
(***************************************************************************)
Min(a, b) == IF a <= b THEN a ELSE b
Max(a, b) == IF a >= b THEN a ELSE b

Range(s) == {s[i] : i \in DOMAIN s}

\* Python slicing s[:n]
Take(s, n) == SubSeq(s, 1, Min(Len(s), Max(n, 0)))

\* Python slicing s[n:]
Drop(s, n) == SubSeq(s, Min(Len(s), Max(n, 0)) + 1, Len(s))

(***************************************************************************)
(* QueryCache (utils/cache.py).  The directory is a function from the keys *)
(* that have an entry file to the file: the JSON record {ts, ttl, payload} *)
(* written by set, and the file's modification time.  json.dumps followed  *)
(* by json.loads gives back the record set wrote (numbers, strings and     *)
(* booleans only), so a file is represented by that record.                *)
(***************************************************************************)
NoPayload == "None"

EmptyDir == <<>>

\* path.exists() for _entry_path(key)
EntryExists(dir, key) == key \in DOMAIN dir

\* path.unlink(missing_ok=True)
Unlink(dir, key) == [k \in (DOMAIN dir) \ {key} |-> dir[k]]

\* path.write_text(json.dumps(record)): creates or replaces the file
WriteEntry(dir, key, entry) ==
    [k \in (DOMAIN dir) \cup {key} |-> IF k = key THEN entry ELSE dir[k]]

\* sorted(glob("*.json"), key=st_mtime, reverse=True)
RECURSIVE FilesByMtime(_, _)
FilesByMtime(dir, keys) ==
    IF keys = {} THEN <<>>
    ELSE LET newest == CHOOSE k \in keys :
                           \A j \in keys : dir[j].mtime <= dir[k].mtime
         IN  <<newest>> \o FilesByMtime(dir, keys \ {newest})

\* A prune that sorts ascending (reverse=True forgotten): it keeps the oldest
\* max_entries files and unlinks the newest
PrunedKeysOldestFirst(dir, max_entries) ==
    LET files == FilesByMtime(dir, DOMAIN dir)
    IN  Range(Take(files, Len(files) - max_entries))

\* The files _prune unlinks: files[max_entries:]
PrunedKeys(dir, max_entries) ==
    LET files == FilesByMtime(dir, DOMAIN dir)
    IN  Range(Drop(files, max_entries))

\* QueryCache._prune
Prune(dir, max_entries) ==
    LET stale == PrunedKeys(dir, max_entries)
    IN  [k \in (DOMAIN dir) \ stale |-> dir[k]]

\* A get that rewrites the entry it serves with the time of the read
CacheGetTouching(dir, key, now) ==
    IF ~EntryExists(dir, key)
    THEN [hit |-> FALSE, payload |-> NoPayload, dir |-> dir]
    ELSE LET raw == dir[key]
         IN  IF raw.ttl # 0 /\ (now - raw.ts) > raw.ttl
             THEN [hit |-> FALSE, payload |-> NoPayload, dir |-> Unlink(dir, key)]
             ELSE [hit |-> TRUE, payload |-> raw.payload,
                   dir |-> [dir EXCEPT ![key].ts = now]]

\* QueryCache.get: the returned payload (hit = it is not None) and the
\* directory it leaves.
CacheGet(dir, key, now) ==
    IF ~EntryExists(dir, key)
    THEN [hit |-> FALSE, payload |-> NoPayload, dir |-> dir]
    ELSE LET raw == dir[key]
         IN  IF raw.ttl # 0 /\ (now - raw.ts) > raw.ttl
             THEN [hit |-> FALSE, payload |-> NoPayload, dir |-> Unlink(dir, key)]
             ELSE [hit |-> TRUE, payload |-> raw.payload, dir |-> dir]

\* QueryCache.set: the directory it leaves.  hasTtl = FALSE is ttl=None.  mt is
\* the modification time the filesystem gives the written file.
CacheSet(dir, key, payload, hasTtl, ttl, now, mt, max_entries, default_ttl) ==
    IF max_entries = 0
    THEN dir
    ELSE LET record == [ts |-> now,
                        ttl |-> IF hasTtl THEN ttl ELSE default_ttl,
                        payload |-> payload,
                        mtime |-> mt]
         IN  Prune(WriteEntry(dir, key, record), max_entries)

NoOp == [op |-> "none", key |-> "k1", payload |-> NoPayload, hasTtl |-> FALSE,
         ttl |-> 0, at |-> 0, hit |-> FALSE, existed |-> FALSE,
         ets |-> 0, ettl |-> 0, removed |-> {}, before |-> 0, n |-> 0]

\* QueryCache.__init__: default_ttl = max(0, ttl_seconds), max_entries likewise
QueryCacheInit(ttl_seconds, max_entries) ==
    [default_ttl |-> Max(0, ttl_seconds), max_entries |-> Max(0, max_entries)]

(***************************************************************************)
(* Text.  A string is a sequence of one-character strings.                 *)
(***************************************************************************)
UpperChars == <<"A", "B", "C", "D", "E", "F", "G", "H", "I", "J", "K", "L", "M",
                "N", "O", "P", "Q", "R", "S", "T", "U", "V", "W", "X", "Y", "Z",
                "Á", "É", "Í", "Ó", "Ú", "Â", "Ê", "Ô", "Ã", "Õ", "Ç">>
LowerChars == <<"a", "b", "c", "d", "e", "f", "g", "h", "i", "j", "k", "l", "m",
                "n", "o", "p", "q", "r", "s", "t", "u", "v", "w", "x", "y", "z",
                "á", "é", "í", "ó", "ú", "â", "ê", "ô", "ã", "õ", "ç">>
DigitChars == {"0", "1", "2", "3", "4", "5", "6", "7", "8", "9"}
SpaceChars == {" ", "\t", "\n"}

\* str.lower() on one character
LowerChar(c) ==
    IF \E i \in DOMAIN UpperChars : UpperChars[i] = c
    THEN LowerChars[CHOOSE i \in DOMAIN UpperChars : UpperChars[i] = c]
    ELSE c

\* str.lower()
Lower(s) == [i \in DOMAIN s |-> LowerChar(s[i])]

\* regex \w (letters, digits, underscore) and \s
IsWordChar(c) ==
    \/ c \in Range(UpperChars)
    \/ c \in Range(LowerChars)
    \/ c \in DigitChars
    \/ c = "_"
IsSpaceChar(c) == c \in SpaceChars

\* Python's `sub in s`
Contains(s, sub) ==
    \E i \in 1..(Len(s) - Len(sub) + 1) :
        \A j \in 1..Len(sub) : s[i + j - 1] = sub[j]

\* any(w in s for w in words)
ContainsAny(s, words) == \E w \in words : Contains(s, w)

\* str.strip()
RECURSIVE LStrip(_)
LStrip(s) == IF s # <<>> /\ IsSpaceChar(Head(s)) THEN LStrip(Tail(s)) ELSE s
RECURSIVE RStrip(_)
RStrip(s) ==
    IF s # <<>> /\ IsSpaceChar(s[Len(s)]) THEN RStrip(SubSeq(s, 1, Len(s) - 1)) ELSE s
Strip(s) == RStrip(LStrip(s))

\* re.sub(r'[^\w\s]', '', s)
RECURSIVE RemovePunctuation(_)
RemovePunctuation(s) ==
    IF s = <<>> THEN <<>>
    ELSE IF IsWordChar(Head(s)) \/ IsSpaceChar(Head(s))
         THEN <<Head(s)>> \o RemovePunctuation(Tail(s))
         ELSE RemovePunctuation(Tail(s))

\* re.sub(r'\s+', ' ', s)
RECURSIVE CollapseSpaces(_)
CollapseSpaces(s) ==
    IF s = <<>> THEN <<>>
    ELSE IF IsSpaceChar(Head(s))
         THEN <<" ">> \o CollapseSpaces(LStrip(s))
         ELSE <<Head(s)>> \o CollapseSpaces(Tail(s))

\* _build_cache_key: the normalized query
NormalizeQuery(query) == CollapseSpaces(RemovePunctuation(Lower(Strip(query))))

(***************************************************************************)
(* Keyword tables of the analyzer and the planner.                         *)
(***************************************************************************)
CodeWords ==
    { <<"c", "ó", "d", "i", "g", "o">>,
      <<"f", "u", "n", "ç", "ã", "o">>,
      <<"c", "l", "a", "s", "s", "e">>,
      <<"i", "m", "p", "l", "e", "m", "e", "n", "t", "a", "ç", "ã", "o">>,
      <<"b", "u", "g">>,
      <<"e", "r", "r", "o">> }

ConfigWords ==
    { <<"c", "o", "n", "f", "i", "g", "u", "r", "a", "r">>,
      <<"s", "e", "t", "u", "p">>,
      <<"i", "n", "s", "t", "a", "l", "a", "r">>,
      <<"c", "o", "n", "f", "i", "g">> }

ExplainWords ==
    { <<"c", "o", "m", "o">>,
      <<"p", "o", "r", "q", "u", "e">>,
      <<"e", "x", "p", "l", "i", "q", "u", "e">>,
      <<"e", "n", "t", "e", "n", "d", "e", "r">>,
      <<"f", "u", "n", "c", "i", "o", "n", "a">> }

StatusWords ==
    { <<"s", "t", "a", "t", "u", "s">>,
      <<"p", "r", "o", "g", "r", "e", "s", "s", "o">>,
      <<"f", "a", "s", "e">>,
      <<"a", "n", "d", "a", "m", "e", "n", "t", "o">> }

ObjectiveMarkers ==
    { <<"o", "n", "d", "e">>,
      <<"q", "u", "a", "l", " ", "a", "r", "q", "u", "i", "v", "o">>,
      <<"l", "i", "n", "h", "a">>,
      <<"p", "a", "r", "â", "m", "e", "t", "r", "o">>,
      <<"f", "l", "a", "g">>,
      <<"c", "o", "m", "a", "n", "d", "o">> }

GenericTerms ==
    { <<"o", " ", "q", "u", "e", " ", "é">>,
      <<"d", "e", "f", "i", "n", "a">>,
      <<"d", "e", "f", "i", "n", "i", "ç", "ã", "o", " ", "d", "e">> }

ProjectTokens ==
    { <<"s", "e", "l", "e", "c", "t", "o", "r", "2", "1">>,
      <<"b", "o", "t", "s", "c", "a", "l", "p">>,
      <<"m", "c", "p">>,
      <<"r", "a", "g">> }

PlanningTriggers ==
    { <<"p", "i", "p", "e", "l", "i", "n", "e">>,
      <<"f", "l", "u", "x", "o">>,
      <<"p", "a", "s", "s", "o", "s">>,
      <<"d", "e", "c", "o", "m", "p", "o", "r">>,
      <<"e", "n", "t", "e", "n", "d", "e", "r">>,
      <<"d", "e", "s", "c", "r", "e", "v", "e", "r">>,
      <<"i", "n", "t", "e", "i", "r", "o">> }

temporal_keywords ==
    << [keyword |-> <<"h", "o", "j", "e">>, days |-> 0],
       [keyword |-> <<"o", "n", "t", "e", "m">>, days |-> 1],
       [keyword |-> <<"a", "n", "t", "e", "o", "n", "t", "e", "m">>, days |-> 2],
       [keyword |-> <<"s", "e", "m", "a", "n", "a">>, days |-> 7],
       [keyword |-> <<"m", "ê", "s">>, days |-> 30],
       [keyword |-> <<"r", "e", "c", "e", "n", "t", "e">>, days |-> 7],
       [keyword |-> <<"ú", "l", "t", "i", "m", "o">>, days |-> 3],
       [keyword |-> <<"n", "o", "v", "a">>, days |-> 3],
       [keyword |-> <<"a", "t", "u", "a", "l">>, days |-> 1] >>

(***************************************************************************)
(* Query analyzer.                                                         *)
(***************************************************************************)
\* extract_temporal: the first keyword of the table (in dict order) found
RECURSIVE FirstTemporal(_, _)
FirstTemporal(query_lower, i) ==
    IF i > Len(temporal_keywords)
    THEN [has_temporal |-> FALSE, days_back |-> 0, keyword |-> <<>>]
    ELSE IF Contains(query_lower, temporal_keywords[i].keyword)
         THEN [has_temporal |-> TRUE,
               days_back |-> temporal_keywords[i].days,
               keyword |-> temporal_keywords[i].keyword]
         ELSE FirstTemporal(query_lower, i + 1)

extract_temporal(query) == FirstTemporal(Lower(query), 1)

classify_intent(query) ==
    LET query_lower == Lower(query)
    IN  IF ContainsAny(query_lower, CodeWords) THEN "code"
        ELSE IF ContainsAny(query_lower, ConfigWords) THEN "config"
        ELSE IF ContainsAny(query_lower, ExplainWords) THEN "explain"
        ELSE IF ContainsAny(query_lower, StatusWords) THEN "status"
        ELSE "general"

\* process_query: the analyzed query.  concepts and expansions are the fast
\* LLM's answers (extract_concepts and expand_query return [] on failure).
process_query(query, concepts, expansions) ==
    [original |-> query,
     concepts |-> Take(concepts, 5),
     expansions |-> Take(expansions, 3),
     temporal |-> extract_temporal(query),
     intent |-> classify_intent(query)]

(***************************************************************************)
(* Strategy planner.                                                       *)
(***************************************************************************)
_decide_retrieval_strategy(processed_query, default_top_k) ==
    LET intent == processed_query.intent
        q == processed_query.original
        qlow == Lower(q)
        qlen == Len(q)
        is_objective == ContainsAny(qlow, ObjectiveMarkers)
        base == [mode |-> "hybrid",
                 use_vector |-> TRUE,
                 use_memory |-> TRUE,
                 use_recent |-> processed_query.temporal.has_temporal,
                 use_code |-> (intent = "code"),
                 use_keywords |-> (intent # "code"),
                 use_graph |-> (intent \in {"status", "explain", "general"}),
                 top_k |-> 20,
                 vector_n_results |-> 10,
                 memory_limit |-> 20,
                 memory_concepts |-> 3,
                 use_planning |-> FALSE]
        byIntent ==
            IF intent = "code"
            THEN [base EXCEPT !.use_code = TRUE, !.top_k = 15,
                              !.vector_n_results = 15, !.memory_limit = 10]
            ELSE IF intent \in {"status", "config"}
            THEN [base EXCEPT !.top_k = 15, !.vector_n_results = 8,
                              !.memory_limit = 15]
            ELSE IF intent = "explain"
            THEN [base EXCEPT !.top_k = Max(default_top_k, 50),
                              !.vector_n_results = 15, !.memory_limit = 30]
            ELSE base
        byShape ==
            IF is_objective
            THEN [byIntent EXCEPT !.top_k = Min(byIntent.top_k, 12),
                                  !.vector_n_results = Min(byIntent.vector_n_results, 8),
                                  !.use_keywords = TRUE,
                                  !.use_graph = FALSE]
            ELSE IF qlen > 120
            THEN [byIntent EXCEPT !.top_k = Max(byIntent.top_k, Max(default_top_k, 50)),
                                  !.vector_n_results = Max(byIntent.vector_n_results, 18)]
            ELSE byIntent
        byMode ==
            IF /\ intent = "explain"
               /\ ContainsAny(qlow, GenericTerms)
               /\ ~ContainsAny(qlow, ProjectTokens)
            THEN [byShape EXCEPT !.mode = "none", !.use_vector = FALSE,
                                 !.use_memory = FALSE, !.use_code = FALSE,
                                 !.use_keywords = FALSE, !.use_graph = FALSE]
            ELSE byShape
    IN  [byMode EXCEPT !.use_planning =
            (Len(q) > 160) \/ ContainsAny(qlow, PlanningTriggers)]

\* QueryCache.make_key over _build_cache_key's key_parts.  SHA-256 of the
\* canonical JSON is taken to be injective: the key is the tuple of parts.
make_key(project, query, intent, top_k, context_max, vector, memory, recent) ==
    <<project, query, intent, top_k, context_max, vector, memory, recent>>

ProjectName == "scalp"

_build_cache_key(query, processed_query, strategy, context_max_chars) ==
    make_key(ProjectName, NormalizeQuery(query), processed_query.intent,
             strategy.top_k, context_max_chars, strategy.use_vector,
             strategy.use_memory, strategy.use_recent)

\* A TTL lookup that ignores intent_cache_policy and always gives the global
\* default
_cache_ttl_default(c, intent) ==
    IF ~c.cacheEnabled THEN 0 ELSE c.default_ttl

\* A TTL lookup without the test for a negative configured value
_cache_ttl_keeping_negative(c, intent) ==
    IF ~c.cacheEnabled THEN 0
    ELSE IF intent \notin DOMAIN c.policy THEN c.default_ttl
    ELSE c.policy[intent]

\* _cache_ttl_for_intent
_cache_ttl_for_intent(c, intent) ==
    IF ~c.cacheEnabled THEN 0
    ELSE IF intent \notin DOMAIN c.policy \/ c.policy[intent] < 0
    THEN c.default_ttl
    ELSE c.policy[intent]

(***************************************************************************)
(* Documents.  A document dict is a record:                                *)
(*   id     the content (two documents with the same id have equal content)*)
(*   pfx    content[:200], the text the orchestrator hashes to deduplicate *)
(*          (hash() is taken to be injective on the prefixes)              *)
(*   len    len(content)                                                   *)
(*   score, vector_score   in tenths; a missing key reads as 0             *)
(*          (doc.get('score', 0)), so 0 stands for a missing key           *)
(*   temporal_boost        in tenths; 10 (a factor 1.0) stands for missing *)
(*   ce     the cross-encoder's score of (query, content[:1000]), tenths   *)
(*   exact  query.lower() in content.lower()                               *)
(*   final_score, final_ulps   set by the re-ranker: the float final_score *)
(*          is final_ulps doubles above the double nearest to              *)
(*          final_score / 2500                                             *)
(***************************************************************************)
Doc(id, pfx, len, score, vector_score, ce, exact) ==
    [id |-> id, pfx |-> pfx, len |-> len, score |-> score,
     vector_score |-> vector_score, temporal_boost |-> 10, ce |-> ce,
     exact |-> exact, final_score |-> 0, final_ulps |-> 0]

Agents == {"vector", "memory", "recent", "code", "keyword", "graph"}

\* The agents multi_agent_retrieval submits, from the strategy
LaunchedAgents(strategy) ==
    {a \in Agents :
        \/ a = "vector" /\ strategy.use_vector
        \/ a = "memory" /\ strategy.use_memory
        \/ a = "recent" /\ strategy.use_recent
        \/ a = "code" /\ strategy.use_code
        \/ a = "keyword" /\ strategy.use_keywords
        \/ a = "graph" /\ strategy.use_graph}

\* The deduplication loop of multi_agent_retrieval: a document is appended to
\* unique_docs iff no earlier document of all_documents has its
\* hash(content[:200]); the survivors keep their order.
Dedup(all_documents) ==
    LET indexed == [i \in DOMAIN all_documents |-> [i |-> i, doc |-> all_documents[i]]]
        FirstSeen(x) == \A j \in 1..(x.i - 1) : all_documents[j].pfx # x.doc.pfx
        kept == SelectSeq(indexed, FirstSeen)
    IN  [i \in DOMAIN kept |-> kept[i].doc]

\* all_documents after the as_completed loop: the lists of the agents that
\* did not raise, concatenated in completion order.
RECURSIVE Collect(_, _)
Collect(results, order) ==
    IF order = <<>> THEN <<>>
    ELSE LET r == results[Head(order)]
         IN  (IF r.fail THEN <<>> ELSE r.docs) \o Collect(results, Tail(order))

\* multi_agent_retrieval: results maps each agent to what its worker did
\* (raised, or returned a list); order is the workers' completion order.
multi_agent_retrieval(strategy, results, order) == Dedup(Collect(results, order))

\* All orders in which the workers of a set of agents can complete
Orders(agents) ==
    {o \in [1..Cardinality(agents) -> agents] :
        \A i, j \in 1..Cardinality(agents) : i # j => o[i] # o[j]}

(***************************************************************************)
(* Re-ranker.                                                              *)
(***************************************************************************)
\* sorted(documents, key=..., reverse=True): descending and stable.  The
\* document at index i lands after the documents with a larger key and after
\* the earlier documents with an equal key.
SortedAt(docs, pos) ==
    [p \in 1..Len(docs) |-> docs[CHOOSE i \in 1..Len(docs) : pos[i] = p]]

\* Position of each element after a stable descending sort of its key
Positions(keys) ==
    SubSeq([i \in 1..Len(keys) |->
               1 + Cardinality({j \in 1..Len(keys) :
                       \/ keys[j] > keys[i]
                       \/ (keys[j] = keys[i] /\ j < i)})],
           1, Len(keys))

SortDesc(docs, keys) == SortedAt(docs, Positions(keys))

\* More doubles than separate a float result from its exact value
UlpScale == 16

\* score + vector_score is a float sum.  QuickAbove holds the <<score,
\* vector_score>> (tenths, 0..10) whose sum is the double just above the one
\* nearest to the exact sum, QuickBelow those whose sum is the double just below.
QuickAbove == {<<1, 2>>, <<2, 1>>, <<2, 4>>, <<4, 2>>, <<4, 8>>, <<8, 4>>,
               <<8, 9>>, <<9, 8>>}
QuickBelow == {<<1, 7>>, <<7, 1>>, <<2, 7>>, <<7, 2>>, <<3, 6>>, <<6, 3>>,
               <<6, 7>>, <<7, 6>>}

\* Stage 1 key, ordered as the float sums x.get('score', 0) +
\* x.get('vector_score', 0) are; defined for score and vector_score in 0..10
QuickKey(doc) ==
    LET key == <<doc.score, doc.vector_score>>
    IN  (doc.score + doc.vector_score) * UlpScale
        + (CASE key \in QuickAbove -> 1
             [] key \in QuickBelow -> -1
             [] doc.score \in 0..10 /\ doc.vector_score \in 0..10 -> 0)

\* Stage 2: final_score = (ce + 0.2 * vector_score) * temporal_boost * (1.2 if
\* the query occurs in the content); the exact value of the expression, in
\* units of 1/2500
FinalScore(doc) ==
    (5 * doc.ce + doc.vector_score) * doc.temporal_boost
        * (IF doc.exact THEN 6 ELSE 5)

\* The inputs of stage 2 the float arithmetic is tabulated for, in tenths
FloatCe == (-10..10) \cup {20, 49, 50}
FloatVectorScores == 0..10
FloatBoosts == {10, 15, 20, 30}

\* Stage 2 computes in IEEE doubles, left to right:
\*   final_score = float(ce); += vector_score * 0.2; *= temporal_boost; *= 1.2
\* and each step rounds.  The result lies a few doubles away from the double
\* nearest to the exact value.  FloatOffsets[k + 5] holds the inputs
\* <<ce, vector_score, temporal_boost, exact>> (tenths; exact as 0 or 1) whose
\* result is k doubles above it, k in -4..4, k # 0.
FloatOffsets ==
    << {<<-2,7,10,0>>, <<-2,7,20,0>>, <<-1,6,10,1>>, <<-1,6,15,0>>,
       <<-1,6,20,1>>, <<-1,6,30,0>>, <<-1,7,10,1>>, <<-1,7,15,0>>,
       <<-1,7,20,1>>, <<-1,7,30,0>>},
       {<<-2,7,15,0>>, <<-2,7,15,1>>, <<-2,7,30,0>>, <<-2,7,30,1>>,
       <<-1,6,10,0>>, <<-1,6,20,0>>, <<-1,7,10,0>>, <<-1,7,20,0>>},
       {<<-2,6,15,0>>, <<-2,6,30,0>>, <<-2,7,10,1>>, <<-2,7,20,1>>,
       <<-1,3,15,0>>, <<-1,3,30,0>>, <<-1,6,15,1>>, <<-1,6,30,1>>,
       <<-1,7,15,1>>, <<-1,7,30,1>>},
       {<<-10,10,15,0>>, <<-10,10,15,1>>, <<-10,10,30,0>>, <<-10,10,30,1>>,
       <<-9,3,10,0>>, <<-9,3,15,0>>, <<-9,3,15,1>>, <<-9,3,20,0>>,
       <<-9,3,30,0>>, <<-9,3,30,1>>, <<-9,4,10,0>>, <<-9,4,20,0>>,
       <<-9,5,15,0>>, <<-9,5,15,1>>, <<-9,5,30,0>>, <<-9,5,30,1>>,
       <<-9,7,15,0>>, <<-9,7,30,0>>, <<-8,0,15,0>>, <<-8,0,15,1>>,
       <<-8,0,30,0>>, <<-8,0,30,1>>, <<-8,2,15,0>>, <<-8,2,30,0>>,
       <<-8,5,10,0>>, <<-8,5,10,1>>, <<-8,5,20,0>>, <<-8,5,20,1>>,
       <<-8,6,10,1>>, <<-8,6,20,1>>, <<-8,10,10,0>>, <<-8,10,10,1>>,
       <<-8,10,15,0>>, <<-8,10,20,0>>, <<-8,10,20,1>>, <<-8,10,30,0>>,
       <<-5,5,15,0>>, <<-5,5,15,1>>, <<-5,5,30,0>>, <<-5,5,30,1>>,
       <<-5,6,15,0>>, <<-5,6,30,0>>, <<-4,0,15,0>>, <<-4,0,15,1>>,
       <<-4,0,30,0>>, <<-4,0,30,1>>, <<-4,1,15,0>>, <<-4,1,30,0>>,
       <<-4,3,10,1>>, <<-4,3,20,1>>, <<-4,5,10,0>>, <<-4,5,10,1>>,
       <<-4,5,15,0>>, <<-4,5,20,0>>, <<-4,5,20,1>>, <<-4,5,30,0>>,
       <<-4,6,15,0>>, <<-4,6,30,0>>, <<-4,10,15,0>>, <<-4,10,15,1>>,
       <<-4,10,30,0>>, <<-4,10,30,1>>, <<-2,0,15,0>>, <<-2,0,15,1>>,
       <<-2,0,30,0>>, <<-2,0,30,1>>, <<-2,3,15,0>>, <<-2,3,30,0>>,
       <<-2,5,15,0>>, <<-2,5,15,1>>, <<-2,5,30,0>>, <<-2,5,30,1>>,
       <<-2,6,10,0>>, <<-2,6,10,1>>, <<-2,6,15,1>>, <<-2,6,20,0>>,
       <<-2,6,20,1>>, <<-2,6,30,1>>, <<-1,0,15,0>>, <<-1,0,15,1>>,
       <<-1,0,30,0>>, <<-1,0,30,1>>, <<-1,3,10,0>>, <<-1,3,10,1>>,
       <<-1,3,15,1>>, <<-1,3,20,0>>, <<-1,3,20,1>>, <<-1,3,30,1>>,
       <<0,7,10,0>>, <<0,7,10,1>>, <<0,7,15,0>>, <<0,7,15,1>>, <<0,7,20,0>>,
       <<0,7,20,1>>, <<0,7,30,0>>, <<0,7,30,1>>, <<1,8,15,1>>, <<1,8,30,1>>,
       <<2,3,15,1>>, <<2,3,30,1>>, <<2,7,10,0>>, <<2,7,20,0>>, <<2,9,10,1>>,
       <<2,9,20,1>>, <<3,0,15,0>>, <<3,0,15,1>>, <<3,0,30,0>>, <<3,0,30,1>>,
       <<3,2,10,0>>, <<3,2,20,0>>, <<3,4,10,1>>, <<3,4,20,1>>, <<3,7,10,0>>,
       <<3,7,10,1>>, <<3,7,15,0>>, <<3,7,15,1>>, <<3,7,20,0>>, <<3,7,20,1>>,
       <<3,7,30,0>>, <<3,7,30,1>>, <<3,10,15,1>>, <<3,10,30,1>>, <<4,5,15,1>>,
       <<4,5,30,1>>, <<4,6,15,1>>, <<4,6,30,1>>, <<5,0,15,1>>, <<5,0,30,1>>,
       <<5,1,15,1>>, <<5,1,30,1>>, <<5,5,15,0>>, <<5,5,15,1>>, <<5,5,30,0>>,
       <<5,5,30,1>>, <<5,6,15,0>>, <<5,6,15,1>>, <<5,6,30,0>>, <<5,6,30,1>>,
       <<5,10,15,0>>, <<5,10,15,1>>, <<5,10,30,0>>, <<5,10,30,1>>,
       <<6,0,15,0>>, <<6,0,15,1>>, <<6,0,30,0>>, <<6,0,30,1>>, <<6,1,15,0>>,
       <<6,1,15,1>>, <<6,1,30,0>>, <<6,1,30,1>>, <<6,3,10,0>>, <<6,3,10,1>>,
       <<6,3,15,0>>, <<6,3,15,1>>, <<6,3,20,0>>, <<6,3,20,1>>, <<6,3,30,0>>,
       <<6,3,30,1>>, <<6,4,10,0>>, <<6,4,20,0>>, <<6,5,15,0>>, <<6,5,15,1>>,
       <<6,5,30,0>>, <<6,5,30,1>>, <<6,7,15,0>>, <<6,7,15,1>>, <<6,7,30,0>>,
       <<6,7,30,1>>, <<6,8,10,1>>, <<6,8,20,1>>, <<6,9,10,1>>, <<6,9,20,1>>,
       <<7,0,15,0>>, <<7,0,15,1>>, <<7,0,30,0>>, <<7,0,30,1>>, <<7,2,15,0>>,
       <<7,2,15,1>>, <<7,2,30,0>>, <<7,2,30,1>>, <<7,3,10,1>>, <<7,3,20,1>>,
       <<7,4,10,1>>, <<7,4,20,1>>, <<7,5,10,0>>, <<7,5,10,1>>, <<7,5,20,0>>,
       <<7,5,20,1>>, <<7,6,10,1>>, <<7,6,20,1>>, <<7,10,10,0>>, <<7,10,10,1>>,
       <<7,10,15,0>>, <<7,10,15,1>>, <<7,10,20,0>>, <<7,10,20,1>>,
       <<7,10,30,0>>, <<7,10,30,1>>, <<8,10,15,1>>, <<8,10,30,1>>,
       <<9,5,15,1>>, <<9,5,30,1>>, <<9,6,15,1>>, <<9,6,30,1>>, <<9,7,15,1>>,
       <<9,7,30,1>>, <<10,0,15,1>>, <<10,0,30,1>>, <<10,1,15,1>>,
       <<10,1,30,1>>, <<10,2,15,1>>, <<10,2,30,1>>, <<10,7,10,1>>,
       <<10,7,20,1>>, <<10,10,15,0>>, <<10,10,15,1>>, <<10,10,30,0>>,
       <<10,10,30,1>>, <<20,0,15,1>>, <<20,0,30,1>>, <<20,2,15,1>>,
       <<20,2,30,1>>, <<20,3,15,1>>, <<20,3,30,1>>, <<20,4,15,1>>,
       <<20,4,30,1>>, <<49,3,15,0>>, <<49,3,15,1>>, <<49,3,30,0>>,
       <<49,3,30,1>>, <<50,1,10,1>>, <<50,1,15,0>>, <<50,1,20,1>>,
       <<50,1,30,0>>, <<50,3,10,1>>, <<50,3,15,1>>, <<50,3,20,1>>,
       <<50,3,30,1>>, <<50,5,10,1>>, <<50,5,15,0>>, <<50,5,20,1>>,
       <<50,5,30,0>>, <<50,7,10,1>>, <<50,7,15,0>>, <<50,7,15,1>>,
       <<50,7,20,1>>, <<50,7,30,0>>, <<50,7,30,1>>, <<50,9,10,1>>,
       <<50,9,20,1>>},
       {},
       {<<-10,0,15,1>>, <<-10,0,30,1>>, <<-10,4,10,0>>, <<-10,4,10,1>>,
       <<-10,4,20,0>>, <<-10,4,20,1>>, <<-10,9,10,1>>, <<-10,9,20,1>>,
       <<-9,6,10,1>>, <<-9,6,20,1>>, <<-9,7,10,1>>, <<-9,7,20,1>>,
       <<-9,8,15,0>>, <<-9,8,15,1>>, <<-9,8,30,0>>, <<-9,8,30,1>>,
       <<-9,10,15,0>>, <<-9,10,15,1>>, <<-9,10,30,0>>, <<-9,10,30,1>>,
       <<-8,1,10,1>>, <<-8,1,20,1>>, <<-8,2,10,1>>, <<-8,2,20,1>>,
       <<-8,3,15,0>>, <<-8,3,15,1>>, <<-8,3,30,0>>, <<-8,3,30,1>>,
       <<-8,9,15,0>>, <<-8,9,15,1>>, <<-8,9,30,0>>, <<-8,9,30,1>>,
       <<-7,0,15,0>>, <<-7,0,15,1>>, <<-7,0,30,0>>, <<-7,0,30,1>>,
       <<-7,1,10,0>>, <<-7,1,20,0>>, <<-7,2,10,0>>, <<-7,2,10,1>>,
       <<-7,2,15,0>>, <<-7,2,15,1>>, <<-7,2,20,0>>, <<-7,2,20,1>>,
       <<-7,2,30,0>>, <<-7,2,30,1>>, <<-7,3,10,0>>, <<-7,3,10,1>>,
       <<-7,3,15,0>>, <<-7,3,15,1>>, <<-7,3,20,0>>, <<-7,3,20,1>>,
       <<-7,3,30,0>>, <<-7,3,30,1>>, <<-7,4,10,0>>, <<-7,4,10,1>>,
       <<-7,4,20,0>>, <<-7,4,20,1>>, <<-7,5,15,0>>, <<-7,5,15,1>>,
       <<-7,5,30,0>>, <<-7,5,30,1>>, <<-7,6,15,0>>, <<-7,6,15,1>>,
       <<-7,6,30,0>>, <<-7,6,30,1>>, <<-7,7,10,0>>, <<-7,7,10,1>>,
       <<-7,7,15,0>>, <<-7,7,15,1>>, <<-7,7,20,0>>, <<-7,7,20,1>>,
       <<-7,7,30,0>>, <<-7,7,30,1>>, <<-7,8,10,0>>, <<-7,8,10,1>>,
       <<-7,8,20,0>>, <<-7,8,20,1>>, <<-7,9,10,0>>, <<-7,9,10,1>>,
       <<-7,9,20,0>>, <<-7,9,20,1>>, <<-7,10,10,0>>, <<-7,10,10,1>>,
       <<-7,10,15,0>>, <<-7,10,20,0>>, <<-7,10,20,1>>, <<-7,10,30,0>>,
       <<-6,0,15,0>>, <<-6,0,15,1>>, <<-6,0,30,0>>, <<-6,0,30,1>>,
       <<-6,1,15,0>>, <<-6,1,15,1>>, <<-6,1,30,0>>, <<-6,1,30,1>>,
       <<-6,2,10,0>>, <<-6,2,10,1>>, <<-6,2,15,0>>, <<-6,2,15,1>>,
       <<-6,2,20,0>>, <<-6,2,20,1>>, <<-6,2,30,0>>, <<-6,2,30,1>>,
       <<-6,4,15,1>>, <<-6,4,30,1>>, <<-6,5,15,1>>, <<-6,5,30,1>>,
       <<-6,7,10,0>>, <<-6,7,10,1>>, <<-6,7,20,0>>, <<-6,7,20,1>>,
       <<-6,8,10,0>>, <<-6,8,10,1>>, <<-6,8,15,0>>, <<-6,8,15,1>>,
       <<-6,8,20,0>>, <<-6,8,20,1>>, <<-6,8,30,0>>, <<-6,8,30,1>>,
       <<-6,9,10,0>>, <<-6,9,10,1>>, <<-6,9,15,0>>, <<-6,9,15,1>>,
       <<-6,9,20,0>>, <<-6,9,20,1>>, <<-6,9,30,0>>, <<-6,9,30,1>>,
       <<-6,10,10,0>>, <<-6,10,10,1>>, <<-6,10,20,0>>, <<-6,10,20,1>>,
       <<-5,0,15,1>>, <<-5,0,30,1>>, <<-5,2,10,0>>, <<-5,2,10,1>>,
       <<-5,2,20,0>>, <<-5,2,20,1>>, <<-5,6,10,1>>, <<-5,6,20,1>>,
       <<-5,8,10,0>>, <<-5,8,20,0>>, <<-5,9,10,0>>, <<-5,9,10,1>>,
       <<-5,9,15,0>>, <<-5,9,15,1>>, <<-5,9,20,0>>, <<-5,9,20,1>>,
       <<-5,9,30,0>>, <<-5,9,30,1>>, <<-5,10,15,0>>, <<-5,10,15,1>>,
       <<-5,10,30,0>>, <<-5,10,30,1>>, <<-4,1,10,1>>, <<-4,1,20,1>>,
       <<-4,7,15,1>>, <<-4,7,30,1>>, <<-3,0,15,0>>, <<-3,0,15,1>>,
       <<-3,0,30,0>>, <<-3,0,30,1>>, <<-3,1,10,0>>, <<-3,1,10,1>>,
       <<-3,1,15,0>>, <<-3,1,15,1>>, <<-3,1,20,0>>, <<-3,1,20,1>>,
       <<-3,1,30,0>>, <<-3,1,30,1>>, <<-3,2,15,1>>, <<-3,2,30,1>>,
       <<-3,4,10,0>>, <<-3,4,10,1>>, <<-3,4,15,0>>, <<-3,4,15,1>>,
       <<-3,4,20,0>>, <<-3,4,20,1>>, <<-3,4,30,0>>, <<-3,4,30,1>>,
       <<-3,5,10,0>>, <<-3,5,10,1>>, <<-3,5,20,0>>, <<-3,5,20,1>>,
       <<-3,9,10,1>>, <<-3,9,20,1>>, <<-3,10,15,0>>, <<-3,10,15,1>>,
       <<-3,10,30,0>>, <<-3,10,30,1>>, <<-1,9,10,0>>, <<-1,9,10,1>>,
       <<-1,9,15,1>>, <<-1,9,20,0>>, <<-1,9,20,1>>, <<-1,9,30,1>>,
       <<-1,10,15,0>>, <<-1,10,15,1>>, <<-1,10,30,0>>, <<-1,10,30,1>>,
       <<0,1,10,0>>, <<0,1,10,1>>, <<0,1,15,1>>, <<0,1,20,0>>, <<0,1,20,1>>,
       <<0,1,30,1>>, <<0,2,10,0>>, <<0,2,10,1>>, <<0,2,15,1>>, <<0,2,20,0>>,
       <<0,2,20,1>>, <<0,2,30,1>>, <<0,4,10,0>>, <<0,4,10,1>>, <<0,4,15,1>>,
       <<0,4,20,0>>, <<0,4,20,1>>, <<0,4,30,1>>, <<0,5,15,0>>, <<0,5,15,1>>,
       <<0,5,30,0>>, <<0,5,30,1>>, <<0,8,10,0>>, <<0,8,10,1>>, <<0,8,15,1>>,
       <<0,8,20,0>>, <<0,8,20,1>>, <<0,8,30,1>>, <<0,9,10,0>>, <<0,9,10,1>>,
       <<0,9,20,0>>, <<0,9,20,1>>, <<0,10,15,0>>, <<0,10,15,1>>, <<0,10,30,0>>,
       <<0,10,30,1>>, <<1,0,15,0>>, <<1,0,15,1>>, <<1,0,30,0>>, <<1,0,30,1>>,
       <<1,1,10,0>>, <<1,1,10,1>>, <<1,1,15,0>>, <<1,1,15,1>>, <<1,1,20,0>>,
       <<1,1,20,1>>, <<1,1,30,0>>, <<1,1,30,1>>, <<1,2,15,0>>, <<1,2,30,0>>,
       <<1,4,10,0>>, <<1,4,10,1>>, <<1,4,20,0>>, <<1,4,20,1>>, <<1,5,15,0>>,
       <<1,5,15,1>>, <<1,5,30,0>>, <<1,5,30,1>>, <<1,9,15,0>>, <<1,9,30,0>>,
       <<1,10,10,0>>, <<1,10,10,1>>, <<1,10,15,0>>, <<1,10,20,0>>,
       <<1,10,20,1>>, <<1,10,30,0>>, <<2,0,15,0>>, <<2,0,15,1>>, <<2,0,30,0>>,
       <<2,0,30,1>>, <<2,1,10,0>>, <<2,1,15,0>>, <<2,1,15,1>>, <<2,1,20,0>>,
       <<2,1,30,0>>, <<2,1,30,1>>, <<2,2,10,0>>, <<2,2,10,1>>, <<2,2,15,0>>,
       <<2,2,15,1>>, <<2,2,20,0>>, <<2,2,20,1>>, <<2,2,30,0>>, <<2,2,30,1>>,
       <<2,4,15,0>>, <<2,4,30,0>>, <<2,5,10,0>>, <<2,5,10,1>>, <<2,5,15,0>>,
       <<2,5,20,0>>, <<2,5,20,1>>, <<2,5,30,0>>, <<2,8,10,0>>, <<2,8,10,1>>,
       <<2,8,20,0>>, <<2,8,20,1>>, <<2,9,15,0>>, <<2,9,30,0>>, <<2,10,15,0>>,
       <<2,10,15,1>>, <<2,10,30,0>>, <<2,10,30,1>>, <<3,4,15,0>>, <<3,4,30,0>>,
       <<3,5,15,0>>, <<3,5,15,1>>, <<3,5,30,0>>, <<3,5,30,1>>, <<3,8,15,0>>,
       <<3,8,15,1>>, <<3,8,30,0>>, <<3,8,30,1>>, <<4,0,15,0>>, <<4,0,15,1>>,
       <<4,0,30,0>>, <<4,0,30,1>>, <<4,1,10,0>>, <<4,1,15,0>>, <<4,1,15,1>>,
       <<4,1,20,0>>, <<4,1,30,0>>, <<4,1,30,1>>, <<4,2,10,0>>, <<4,2,15,0>>,
       <<4,2,15,1>>, <<4,2,20,0>>, <<4,2,30,0>>, <<4,2,30,1>>, <<4,3,15,0>>,
       <<4,3,15,1>>, <<4,3,30,0>>, <<4,3,30,1>>, <<4,4,10,0>>, <<4,4,10,1>>,
       <<4,4,15,0>>, <<4,4,15,1>>, <<4,4,20,0>>, <<4,4,20,1>>, <<4,4,30,0>>,
       <<4,4,30,1>>, <<4,8,15,0>>, <<4,8,30,0>>, <<4,9,10,0>>, <<4,9,10,1>>,
       <<4,9,15,0>>, <<4,9,20,0>>, <<4,9,20,1>>, <<4,9,30,0>>, <<4,10,10,0>>,
       <<4,10,10,1>>, <<4,10,15,0>>, <<4,10,20,0>>, <<4,10,20,1>>,
       <<4,10,30,0>>, <<5,3,15,0>>, <<5,3,30,0>>, <<5,4,10,0>>, <<5,4,10,1>>,
       <<5,4,15,0>>, <<5,4,20,0>>, <<5,4,20,1>>, <<5,4,30,0>>, <<5,9,10,1>>,
       <<5,9,20,1>>, <<6,8,15,0>>, <<6,8,30,0>>, <<6,10,15,0>>, <<6,10,15,1>>,
       <<6,10,30,0>>, <<6,10,30,1>>, <<7,3,15,0>>, <<7,3,30,0>>, <<8,0,15,0>>,
       <<8,0,15,1>>, <<8,0,30,0>>, <<8,0,30,1>>, <<8,1,10,0>>, <<8,1,20,0>>,
       <<8,2,10,0>>, <<8,2,15,0>>, <<8,2,15,1>>, <<8,2,20,0>>, <<8,2,30,0>>,
       <<8,2,30,1>>, <<8,3,10,0>>, <<8,3,20,0>>, <<8,4,10,0>>, <<8,4,15,0>>,
       <<8,4,15,1>>, <<8,4,20,0>>, <<8,4,30,0>>, <<8,4,30,1>>, <<8,6,15,0>>,
       <<8,6,15,1>>, <<8,6,30,0>>, <<8,6,30,1>>, <<8,7,10,0>>, <<8,7,10,1>>,
       <<8,7,15,0>>, <<8,7,15,1>>, <<8,7,20,0>>, <<8,7,20,1>>, <<8,7,30,0>>,
       <<8,7,30,1>>, <<8,8,10,0>>, <<8,8,10,1>>, <<8,8,15,0>>, <<8,8,15,1>>,
       <<8,8,20,0>>, <<8,8,20,1>>, <<8,8,30,0>>, <<8,8,30,1>>, <<8,9,10,0>>,
       <<8,9,10,1>>, <<8,9,15,0>>, <<8,9,15,1>>, <<8,9,20,0>>, <<8,9,20,1>>,
       <<8,9,30,0>>, <<8,9,30,1>>, <<9,1,15,0>>, <<9,1,15,1>>, <<9,1,30,0>>,
       <<9,1,30,1>>, <<9,2,10,0>>, <<9,2,10,1>>, <<9,2,15,0>>, <<9,2,15,1>>,
       <<9,2,20,0>>, <<9,2,20,1>>, <<9,2,30,0>>, <<9,2,30,1>>, <<9,10,15,0>>,
       <<9,10,30,0>>, <<10,5,15,0>>, <<10,5,30,0>>, <<10,6,15,0>>,
       <<10,6,30,0>>, <<10,8,10,0>>, <<10,8,10,1>>, <<10,8,15,0>>,
       <<10,8,20,0>>, <<10,8,20,1>>, <<10,8,30,0>>, <<20,1,15,0>>,
       <<20,1,30,0>>, <<20,5,15,0>>, <<20,5,15,1>>, <<20,5,30,0>>,
       <<20,5,30,1>>, <<20,9,15,0>>, <<20,9,15,1>>, <<20,9,30,0>>,
       <<20,9,30,1>>, <<20,10,15,0>>, <<20,10,30,0>>, <<49,0,15,0>>,
       <<49,0,30,0>>, <<49,4,15,0>>, <<49,4,30,0>>, <<49,6,10,0>>,
       <<49,6,15,0>>, <<49,6,15,1>>, <<49,6,20,0>>, <<49,6,30,0>>,
       <<49,6,30,1>>, <<49,7,15,0>>, <<49,7,15,1>>, <<49,7,30,0>>,
       <<49,7,30,1>>, <<49,8,10,0>>, <<49,8,15,0>>, <<49,8,20,0>>,
       <<49,8,30,0>>, <<49,10,10,0>>, <<49,10,20,0>>, <<50,2,15,0>>,
       <<50,2,15,1>>, <<50,2,30,0>>, <<50,2,30,1>>, <<50,10,15,0>>,
       <<50,10,15,1>>, <<50,10,30,0>>, <<50,10,30,1>>},
       {<<-7,4,15,0>>, <<-7,4,15,1>>, <<-7,4,30,0>>, <<-7,4,30,1>>,
       <<-7,8,15,0>>, <<-7,8,15,1>>, <<-7,8,30,0>>, <<-7,8,30,1>>,
       <<-7,9,15,0>>, <<-7,9,30,0>>, <<-7,10,15,1>>, <<-7,10,30,1>>,
       <<-3,8,10,0>>, <<-3,8,10,1>>, <<-3,8,15,0>>, <<-3,8,15,1>>,
       <<-3,8,20,0>>, <<-3,8,20,1>>, <<-3,8,30,0>>, <<-3,8,30,1>>,
       <<-3,9,10,0>>, <<-3,9,15,0>>, <<-3,9,20,0>>, <<-3,9,30,0>>,
       <<-3,10,10,0>>, <<-3,10,10,1>>, <<-3,10,20,0>>, <<-3,10,20,1>>,
       <<-2,8,15,1>>, <<-2,8,30,1>>, <<-2,9,15,1>>, <<-2,9,30,1>>,
       <<-1,4,15,1>>, <<-1,4,30,1>>, <<-1,8,10,1>>, <<-1,8,20,1>>,
       <<-1,9,15,0>>, <<-1,9,30,0>>, <<0,1,15,0>>, <<0,1,30,0>>, <<0,2,15,0>>,
       <<0,2,30,0>>, <<0,4,15,0>>, <<0,4,30,0>>, <<0,8,15,0>>, <<0,8,30,0>>},
       {<<-7,9,15,1>>, <<-7,9,30,1>>, <<-3,9,15,1>>, <<-3,9,30,1>>,
       <<-2,8,10,0>>, <<-2,8,20,0>>, <<-2,9,10,0>>, <<-2,9,20,0>>,
       <<-1,4,10,0>>, <<-1,4,20,0>>, <<-1,8,15,0>>, <<-1,8,15,1>>,
       <<-1,8,30,0>>, <<-1,8,30,1>>},
       {<<-2,8,10,1>>, <<-2,8,15,0>>, <<-2,8,20,1>>, <<-2,8,30,0>>,
       <<-2,9,10,1>>, <<-2,9,15,0>>, <<-2,9,20,1>>, <<-2,9,30,0>>,
       <<-1,4,10,1>>, <<-1,4,15,0>>, <<-1,4,20,1>>, <<-1,4,30,0>>,
       <<-1,8,10,0>>, <<-1,8,20,0>>} >>

\* The number of doubles the float final_score lies above the double nearest
\* to its exact value; defined on the tabulated inputs only
FloatUlps(doc) ==
    LET key == <<doc.ce, doc.vector_score, doc.temporal_boost,
                 IF doc.exact THEN 1 ELSE 0>>
    IN  CASE \E k \in 1..9 : key \in FloatOffsets[k] ->
                (CHOOSE k \in 1..9 : key \in FloatOffsets[k]) - 5
          [] /\ doc.ce \in FloatCe
             /\ doc.vector_score \in FloatVectorScores
             /\ doc.temporal_boost \in FloatBoosts -> 0

\* The sort key of stage 2: ordered as the float final_score values are
FinalKey(doc) == doc.final_score * UlpScale + doc.final_ulps

\* doc with final_score set as stage 2 sets it
Scored(doc) ==
    [doc EXCEPT !.final_score = FinalScore(doc), !.final_ulps = FloatUlps(doc)]

\* The sort keys of a list of documents
QuickKeys(docs) == SubSeq([i \in 1..Len(docs) |-> QuickKey(docs[i])], 1, Len(docs))
FinalKeys(docs) == SubSeq([i \in 1..Len(docs) |-> FinalKey(docs[i])], 1, Len(docs))

\* rerank_documents with a first stage that keeps only top_k \div 2 candidates
rerank_documents_narrow(documents, top_k) ==
    IF documents = <<>> THEN <<>>
    ELSE LET quick_sorted == SortDesc(documents, QuickKeys(documents))
             candidates == Take(quick_sorted, top_k \div 2)
             scored == [i \in DOMAIN candidates |->
                           Scored(candidates[i])]
         IN  Take(SortDesc(scored, FinalKeys(scored)), top_k)

rerank_documents(documents, top_k) ==
    IF documents = <<>> THEN <<>>
    ELSE LET quick_sorted == SortDesc(documents, QuickKeys(documents))
             candidates_limit == Min(Len(quick_sorted), Max(50, top_k * 2))
             candidates == Take(quick_sorted, candidates_limit)
             scored == [i \in DOMAIN candidates |->
                           Scored(candidates[i])]
         IN  Take(SortDesc(scored, FinalKeys(scored)), top_k)

(***************************************************************************)
(* Context compressor.  The context is represented by its parts: for each  *)
(* included document its 0-based rank i, how it was included and how many  *)
(* characters of its content were taken.                                   *)
(***************************************************************************)
\* 0.8 in units of 1/2500; the literal 0.8 is the double nearest to it
HighScore == 2000

\* doc.get('final_score', 0) > 0.8
AboveHigh(doc) ==
    \/ doc.final_score > HighScore
    \/ (doc.final_score = HighScore /\ doc.final_ulps > 0)

RECURSIVE CompressFrom(_, _, _, _)
CompressFrom(documents, i, current_size, max_chars) ==
    IF i >= Len(documents) THEN <<>>
    ELSE LET doc == documents[i + 1]
         IN  IF i < 10 \/ AboveHigh(doc)
             THEN IF current_size + doc.len <= max_chars
                  THEN <<[i |-> i, kind |-> "full", chars |-> doc.len,
                          final_score |-> doc.final_score]>>
                       \o CompressFrom(documents, i + 1, current_size + doc.len, max_chars)
                  ELSE LET remaining == max_chars - current_size
                       IN  IF remaining > 500
                           THEN <<[i |-> i, kind |-> "truncated", chars |-> remaining,
                                   final_score |-> doc.final_score]>>
                           ELSE <<>>
             ELSE LET summary == Min(doc.len, 1500)
                  IN  IF current_size + summary <= max_chars
                      THEN <<[i |-> i, kind |-> "summary", chars |-> summary,
                              final_score |-> doc.final_score]>>
                           \o CompressFrom(documents, i + 1, current_size + summary, max_chars)
                      ELSE <<>>

RECURSIVE CompressSkipping(_, _, _, _)
\* the loop of compress_context with continue in place of break
CompressSkipping(documents, i, current_size, max_chars) ==
    IF i >= Len(documents) THEN <<>>
    ELSE LET doc == documents[i + 1]
             chars == IF i < 10 \/ AboveHigh(doc)
                          THEN doc.len ELSE Min(doc.len, 1500)
             kind == IF i < 10 \/ AboveHigh(doc)
                         THEN "full" ELSE "summary"
         IN  IF current_size + chars <= max_chars
             THEN <<[i |-> i, kind |-> kind, chars |-> chars,
                     final_score |-> doc.final_score]>>
                  \o CompressSkipping(documents, i + 1, current_size + chars, max_chars)
             ELSE CompressSkipping(documents, i + 1, current_size, max_chars)

compress_context_skipping(documents, max_chars) ==
    IF documents = <<>> THEN <<>> ELSE CompressSkipping(documents, 0, 0, max_chars)

\* compress_context: the parts of the returned string
compress_context(documents, max_chars) ==
    IF documents = <<>> THEN <<>> ELSE CompressFrom(documents, 0, 0, max_chars)

\* len(str(n)) for n >= 0
RECURSIVE Digits(_)
Digits(n) == IF n < 10 THEN 1 ELSE 1 + Digits(n \div 10)

\* len(f"{final_score:.2f}") of a final_score v, in units of 1/2500.  One
\* hundredth is 25 units, so no v lies halfway between two hundredths, and a
\* float a few doubles away from v / 2500 rounds to the same hundredth.
ScoreTextLen(v) ==
    LET a == IF v < 0 THEN -v ELSE v
        q == a \div 25
        r == a % 25
        h == IF r >= 13 THEN q + 1 ELSE q
    IN  (IF v < 0 THEN 1 ELSE 0) + Digits(h \div 100) + 3

\* length of one element of context_parts
PartLen(part) ==
    CASE part.kind = "full" ->
            \* "[Doc N] (Score: s)\n" + content + "\n"
            5 + Digits(part.i + 1) + 10 + ScoreTextLen(part.final_score) + 2
              + part.chars + 1
      [] part.kind = "truncated" ->
            \* "[Doc N] (Score: s)\n" + content[:remaining] + "... [truncated]\n"
            5 + Digits(part.i + 1) + 10 + ScoreTextLen(part.final_score) + 2
              + part.chars + 16
      [] OTHER ->
            \* "[Doc N] (Summary)\n" + summary + "...\n"
            5 + Digits(part.i + 1) + 12 + part.chars + 4

RECURSIVE SumPartLens(_)
SumPartLens(parts) ==
    IF parts = <<>> THEN 0 ELSE PartLen(Head(parts)) + SumPartLens(Tail(parts))

\* len('\n'.join(context_parts))
ContextLen(parts) ==
    IF parts = <<>> THEN 0 ELSE SumPartLens(parts) + (Len(parts) - 1)

(***************************************************************************)
(* Answer synthesizer.                                                     *)
(***************************************************************************)
\* "Não encontrei informações relevantes na base de conhecimento."
Sentinel == "no_relevant_information"

\* generate_answer when the main LLM call succeeds (llm_text is its answer);
\* callsLlm tells whether the main LLM is called at all.
generate_answer(context_len, llm_text) ==
    IF context_len = 0
    THEN [answer |-> Sentinel, callsLlm |-> FALSE]
    ELSE [answer |-> llm_text, callsLlm |-> TRUE]

DefaultTtlSeconds == 900        \* QueryCache.__init__ ttl_seconds default
DefaultMaxEntries == 256        \* QueryCache.__init__ max_entries default
DefaultContextChars == 120000   \* RAG_CONTEXT_CHARS default
DefaultTopK == 40               \* RAG_TOP_K default

(***************************************************************************)
(* RAGMonitor (utils/monitoring.py).                                       *)
(***************************************************************************)
ZeroMetrics == [total_runs |-> 0, cache_hits |-> 0, sum_confidence |-> 0,
                sum_elapsed_sec |-> 0, sum_context_chars |-> 0]

\* log_run: the line appended to rag_runs.jsonl
LogEntry(run_data) ==
    [ts |-> run_data.timestamp,
     project |-> run_data.project,
     query |-> run_data.query,
     intent |-> run_data.intent,
     retrieved |-> run_data.retrieved,
     reranked |-> run_data.reranked,
     context_chars |-> run_data.context_chars,
     confidence |-> run_data.confidence,
     elapsed_sec |-> run_data.elapsed_sec,
     cache_hit |-> run_data.from_cache]

\* _update_metrics counting every run as a cache hit
_update_metrics_counting_all(m, entry) ==
    [total_runs |-> m.total_runs + 1,
     cache_hits |-> m.cache_hits + 1,
     sum_confidence |-> m.sum_confidence + entry.confidence,
     sum_elapsed_sec |-> m.sum_elapsed_sec + entry.elapsed_sec,
     sum_context_chars |-> m.sum_context_chars + entry.context_chars]

\* _update_metrics on the loaded metrics
_update_metrics(m, entry) ==
    [total_runs |-> m.total_runs + 1,
     cache_hits |-> m.cache_hits + (IF entry.cache_hit THEN 1 ELSE 0),
     sum_confidence |-> m.sum_confidence + entry.confidence,
     sum_elapsed_sec |-> m.sum_elapsed_sec + entry.elapsed_sec,
     sum_context_chars |-> m.sum_context_chars + entry.context_chars]

\* rag_metrics.json: missing, of zero bytes, or holding the text of data,
\* which json.loads accepts (parses) or rejects
MissingMetricsFile == [exists |-> FALSE, parses |-> FALSE, data |-> ZeroMetrics]
EmptyMetricsFile == [exists |-> TRUE, parses |-> FALSE, data |-> ZeroMetrics]
EmptyMetricsFiles == {MissingMetricsFile, EmptyMetricsFile}

\* _load_metrics: the file's content, or the zero metrics when the file does
\* not exist or does not parse
_load_metrics(file) ==
    IF file.exists /\ file.parses THEN file.data ELSE ZeroMetrics

(***************************************************************************)
(* RAGTracer (utils/tracing.py).  A trace carries n, the number of the     *)
(* query() call that started it.                                           *)
(***************************************************************************)
NoTrace == [open |-> FALSE, n |-> 0, query |-> <<>>, spans |-> <<>>]

\* start_trace: replaces whatever current_trace held
start_trace(enabled, trace, n, query) ==
    IF ~enabled THEN trace
    ELSE [open |-> TRUE, n |-> n, query |-> Take(query, 200), spans |-> <<>>]

\* a `with tracer.span(name)` block that ends with the given status
span(enabled, trace, name, status) ==
    IF ~enabled \/ ~trace.open THEN trace
    ELSE [trace EXCEPT !.spans = Append(@, [name |-> name, status |-> status])]

\* end_trace: the trace file and current_trace it leaves
end_trace(enabled, trace, file) ==
    IF ~enabled \/ ~trace.open
    THEN [file |-> file, trace |-> trace]
    ELSE [file |-> Append(file, trace), trace |-> NoTrace]

(***************************************************************************)
(* Configurations (environment variables read by AdvancedRAGv2.__init__).  *)
(***************************************************************************)
DefaultPolicy == [status |-> 180, general |-> 600, explain |-> 600, code |-> 90]

\* A configuration that builds the QueryCache whatever RAG_DISABLE_CACHE says
ConfigIgnoringDisable(cacheEnabled, max_entries, ttl_seconds, context_max_chars, default_top_k, tracing) ==
    [cacheEnabled |-> TRUE,
     max_entries |-> QueryCacheInit(ttl_seconds, max_entries).max_entries,
     default_ttl |-> QueryCacheInit(ttl_seconds, max_entries).default_ttl,
     context_max_chars |-> context_max_chars,
     default_top_k |-> default_top_k,
     tracing |-> tracing,
     policy |-> DefaultPolicy]

Config(cacheEnabled, max_entries, ttl_seconds, context_max_chars, default_top_k, tracing) ==
    [cacheEnabled |-> cacheEnabled,
     max_entries |-> QueryCacheInit(ttl_seconds, max_entries).max_entries,
     default_ttl |-> QueryCacheInit(ttl_seconds, max_entries).default_ttl,
     context_max_chars |-> context_max_chars,
     default_top_k |-> default_top_k,
     tracing |-> tracing,
     policy |-> DefaultPolicy]

\* the defaults; RAG_CACHE_MAX_ENTRIES=1 RAG_CONTEXT_CHARS=400 RAG_TOP_K=60;
\* RAG_DISABLE_CACHE=1 RAG_TRACING_ENABLED=0
PipelineConfigs ==
    { Config(TRUE, DefaultMaxEntries, DefaultTtlSeconds, DefaultContextChars,
             DefaultTopK, TRUE),
      Config(TRUE, 1, DefaultTtlSeconds, 400, 60, TRUE),
      Config(FALSE, DefaultMaxEntries, DefaultTtlSeconds, DefaultContextChars,
             DefaultTopK, FALSE) }

(***************************************************************************)
(* What the retrievers return (the knowledge sources are external).        *)
(***************************************************************************)
dA == Doc(1, 1, 300, 9, 0, 9, FALSE)
\* same first 200 characters as dA, different tail
dA2 == Doc(2, 1, 400, 5, 0, 2, TRUE)
dB == Doc(3, 3, 100, 0, 0, -3, FALSE)
dHuge == Doc(4, 4, 600, 7, 0, 8, FALSE)
dGiant == Doc(5, 5, 130000, 3, 0, 1, FALSE)
dRecent == [Doc(6, 6, 200, 0, 0, 4, FALSE) EXCEPT !.temporal_boost = 30]

BulkSize == 55
BulkDocs == [i \in 1..BulkSize |-> Doc(100 + i, 100 + i, 50, 9, 0, i % 7, FALSE)]

Returned(docs) == [fail |-> FALSE, docs |-> docs]
Raised == [fail |-> TRUE, docs |-> <<>>]

World(vector, memory, recent, code, keyword, graph) ==
    [a \in Agents |->
        CASE a = "vector" -> vector
          [] a = "memory" -> memory
          [] a = "recent" -> recent
          [] a = "code" -> code
          [] a = "keyword" -> keyword
          [] OTHER -> graph]

Nothing == Returned(<<>>)

WEmpty == World(Nothing, Nothing, Nothing, Nothing, Nothing, Nothing)
WSmall == World(Returned(<<dA, dB>>), Returned(<<dA2>>), Nothing, Nothing,
                Nothing, Nothing)
WHuge == World(Returned(<<dHuge, dGiant>>), Nothing, Nothing, Nothing, Nothing,
               Nothing)
WBulk == World(Returned(BulkDocs), Nothing, Nothing, Nothing, Nothing, Nothing)
WMemoryFails == World(Returned(<<dA>>), Raised, Returned(<<dRecent>>), Nothing,
                      Raised, Nothing)

WorldNames == {"empty", "small", "huge", "bulk", "memory_fails"}

Worlds ==
    [name \in WorldNames |->
        CASE name = "empty" -> WEmpty
          [] name = "small" -> WSmall
          [] name = "huge" -> WHuge
          [] name = "bulk" -> WBulk
          [] OTHER -> WMemoryFails]

\* The fast LLM's lists (concepts, expansions) and the main LLM's answers
FastLlmLists == {<<>>, <<"c1", "c2">>}
LlmAnswers == {"answer1"}

\* Numbers of lines the planner LLM may return
PlanLines == {0, 4}

(***************************************************************************)
(* The queries submitted in the model.                                     *)
(***************************************************************************)
\* "status do bot"
QStatus ==
    <<"s", "t", "a", "t", "u", "s", " ", "d", "o", " ", "b", "o", "t">>

\* "Status do bot!"
QStatusRaw ==
    <<"S", "t", "a", "t", "u", "s", " ", "d", "o", " ", "b", "o", "t", "!">>

\* "explique o que é cache"
QNone ==
    <<"e", "x", "p", "l", "i", "q", "u", "e", " ", "o", " ", "q", "u", "e", " ", "é", " ", "c", "a", "c", "h", "e">>

\* "como funciona o pipeline"
QPlan ==
    <<"c", "o", "m", "o", " ", "f", "u", "n", "c", "i", "o", "n", "a", " ", "o", " ", "p", "i", "p", "e", "l", "i", "n", "e">>

\* "erro na função ontem"
QCode ==
    <<"e", "r", "r", "o", " ", "n", "a", " ", "f", "u", "n", "ç", "ã", "o", " ", "o", "n", "t", "e", "m">>

\* "o que é cache"
QWhatIs ==
    <<"o", " ", "q", "u", "e", " ", "é", " ", "c", "a", "c", "h", "e">>

\* "onde fica a flag"
QObjective ==
    <<"o", "n", "d", "e", " ", "f", "i", "c", "a", " ", "a", " ", "f", "l", "a", "g">>

Queries == {QStatus, QStatusRaw, QNone, QPlan, QCode}

\* "setup do bot"
QConfig ==
    <<"s", "e", "t", "u", "p", " ", "d", "o", " ", "b", "o", "t">>

TtlQueries == {QStatus, QCode, QConfig, QWhatIs, QNone}

TtlConfigs ==
    { Config(TRUE, DefaultMaxEntries, DefaultTtlSeconds, DefaultContextChars,
             DefaultTopK, TRUE),
      [Config(TRUE, DefaultMaxEntries, 300, DefaultContextChars, DefaultTopK,
              TRUE)
          EXCEPT !.policy = [status |-> -1, general |-> 600, explain |-> 600,
                             code |-> 0]] }

(***************************************************************************)
(* AdvancedRAGv2.query.                                                    *)
(***************************************************************************)
NoStrategy == [mode |-> "hybrid", use_vector |-> FALSE, use_memory |-> FALSE,
               use_recent |-> FALSE, use_code |-> FALSE, use_keywords |-> FALSE,
               use_graph |-> FALSE, top_k |-> 0, vector_n_results |-> 0,
               memory_limit |-> 0, memory_concepts |-> 0, use_planning |-> FALSE]

\* A Run Record built with the two counts exchanged
RunRecordSwapped(query, intent, retrieved, reranked, context_chars, confidence, elapsed_sec, from_cache, answer, timestamp, cache_ttl) ==
    [query |-> query, intent |-> intent, retrieved |-> reranked,
     reranked |-> retrieved, context_chars |-> context_chars,
     confidence |-> confidence, elapsed_sec |-> elapsed_sec,
     from_cache |-> from_cache, answer |-> answer, project |-> ProjectName,
     timestamp |-> timestamp, cache_ttl |-> cache_ttl]

\* The Run Record (stats / no_data_stats / run_payload / log_entry)
RunRecord(query, intent, retrieved, reranked, context_chars, confidence, elapsed_sec, from_cache, answer, timestamp, cache_ttl) ==
    [query |-> query, intent |-> intent, retrieved |-> retrieved,
     reranked |-> reranked, context_chars |-> context_chars,
     confidence |-> confidence, elapsed_sec |-> elapsed_sec,
     from_cache |-> from_cache, answer |-> answer, project |-> ProjectName,
     timestamp |-> timestamp, cache_ttl |-> cache_ttl]

NoRecord == RunRecord(<<>>, "general", 0, 0, 0, 0, 0, FALSE, "", 0, 0)

\* Local variables of query() before its first statement
IdleRun ==
    [n |-> 0, query |-> <<>>, intent |-> "general", strategy |-> NoStrategy,
     hasKey |-> FALSE, cache_key |-> <<>>, start |-> 0, world |-> "",
     subqs |-> 0, retrievals |-> 0, agentCalls |-> 0, documents |-> <<>>,
     reranked |-> <<>>, context |-> <<>>, rerankCalls |-> 0, llmCalls |-> 0,
     path |-> "", answer |-> "", confidence |-> 0, record |-> NoRecord,
     cached |-> FALSE, stored |-> NoRecord,
     logAtStart |-> 0, tracesAtStart |-> 0]

\* len(subqs) for _plan_query's result: subs[:3] if subs else [query], and
\* [query] when the fast LLM call raises
PlannedCount(planOk, lines) ==
    IF ~planOk \/ lines = 0 THEN 1 ELSE Min(lines, 3)

\* The confidence without its cap
ConfidenceUncapped(reranked_docs) == Len(reranked_docs) * 2

\* confidence = min(100, len(reranked_docs) * 2.0)
Confidence(reranked_docs) == Min(100, Len(reranked_docs) * 2)

\* The no-retrieval mode taking its confidence from the formula of the full
\* path, applied to its empty ranked list
NoneConfidenceFromFormula == Confidence(<<>>)

\* confidence of the no-retrieval mode
NoneConfidence == 50

\* query(): the analysis, the strategy and the cache key of a call.  They
\* depend on the query, the fast LLM's answers and the configuration only,
\* and are tabulated over the calls explored.
Analyze(c, q, concepts, expansions) ==
    [processed_query |-> process_query(q, concepts, expansions),
     strategy |-> _decide_retrieval_strategy(
                      process_query(q, concepts, expansions), c.default_top_k),
     cache_key |-> IF c.cacheEnabled
                   THEN _build_cache_key(q,
                            process_query(q, concepts, expansions),
                            _decide_retrieval_strategy(
                                process_query(q, concepts, expansions),
                                c.default_top_k),
                            c.context_max_chars)
                   ELSE <<>>]

Analysis ==
    [c \in PipelineConfigs \cup TtlConfigs |-> [q \in Queries \cup TtlQueries |->
        [concepts \in FastLlmLists |-> [expansions \in FastLlmLists |->
            Analyze(c, q, concepts, expansions)]]]]

\* query(): from entry to the cache probe, and to the return of the cache
\* hit and of the no-retrieval mode
StartQuery(q, concepts, expansions, planOk, lines) ==
    /\ pc \in {"idle", "done"}
    /\ run.n < MaxRuns
    /\ LET n == run.n + 1
           trace0 == start_trace(cfg.tracing, currentTrace, n, q)
           analysis == Analysis[cfg][q][concepts][expansions]
           processed_query == analysis.processed_query
           trace1 == span(cfg.tracing, trace0, "query_processing", "ok")
           intent == processed_query.intent
           strategy == analysis.strategy
           hasKey == cfg.cacheEnabled
           cache_key == analysis.cache_key
           got == IF hasKey THEN CacheGet(cacheDir, cache_key, clock)
                  ELSE [hit |-> FALSE, payload |-> NoPayload, dir |-> cacheDir]
           base == [IdleRun EXCEPT !.n = n, !.query = q, !.intent = intent,
                                   !.strategy = strategy, !.hasKey = hasKey,
                                   !.cache_key = cache_key, !.start = clock,
                                   !.logAtStart = Len(runLog),
                                   !.tracesAtStart = Len(traceFile)]
       IN  IF got.hit
           THEN \* cache hit
                LET cached_payload == got.payload
                    log_entry == [cached_payload EXCEPT
                                     !.query = q, !.intent = intent,
                                     !.elapsed_sec = clock - base.start,
                                     !.from_cache = TRUE,
                                     !.project = ProjectName,
                                     !.timestamp = clock]
                    entry == LogEntry(log_entry)
                IN  /\ planOk /\ lines = 0
                    /\ cacheDir' = got.dir
                    /\ fsTime' = fsTime
                    /\ runLog' = Append(runLog, entry)
                    /\ metrics' = _update_metrics(metrics, entry)
                    /\ currentTrace' = trace1
                    /\ traceFile' = traceFile
                    /\ run' = [base EXCEPT !.path = "cache_hit", !.cached = TRUE,
                                  !.answer = cached_payload.answer,
                                  !.confidence = cached_payload.confidence,
                                  !.record = log_entry]
                    /\ pc' = "done"
           ELSE IF strategy.mode = "none"
           THEN \* no retrieval
                LET ga == generate_answer(0, "")
                    confidence == NoneConfidence
                    cache_ttl == _cache_ttl_for_intent(cfg, intent)
                    stats == RunRecord(q, intent, 0, 0, 0, confidence,
                                       clock - base.start, FALSE, ga.answer,
                                       clock, cache_ttl)
                    entry == LogEntry(stats)
                    mt == fsTime + 1
                IN  /\ planOk /\ lines = 0
                    /\ cacheDir' = IF hasKey
                                   THEN CacheSet(got.dir, cache_key, stats, TRUE,
                                                 cache_ttl, clock, mt,
                                                 cfg.max_entries, cfg.default_ttl)
                                   ELSE got.dir
                    /\ fsTime' = IF hasKey /\ cfg.max_entries # 0 THEN mt ELSE fsTime
                    /\ runLog' = Append(runLog, entry)
                    /\ metrics' = _update_metrics(metrics, entry)
                    /\ currentTrace' = trace1
                    /\ traceFile' = traceFile
                    /\ run' = [base EXCEPT !.path = "none", !.answer = ga.answer,
                                  !.llmCalls = IF ga.callsLlm THEN 1 ELSE 0,
                                  !.confidence = confidence, !.record = stats,
                                  !.stored = IF hasKey THEN stats ELSE NoRecord]
                    /\ pc' = "done"
           ELSE \* on to retrieval, after the optional planning call
                /\ (strategy.use_planning \/ (planOk /\ lines = 0))
                /\ cacheDir' = got.dir
                /\ fsTime' = fsTime
                /\ UNCHANGED <<runLog, metrics, traceFile>>
                /\ currentTrace' = trace1
                /\ run' = [base EXCEPT !.subqs =
                              IF strategy.use_planning
                              THEN PlannedCount(planOk, lines) ELSE 1]
                /\ pc' = "retrieving"
    /\ UNCHANGED <<cfg, clock, lastOp, prevOp>>

\* A collection loop without the try/except around future.result(): the first
\* worker that raises aborts the merge and nothing is collected
ContributingUnlessAnyFails(strategy, world) ==
    IF \E a \in LaunchedAgents(strategy) : world[a].fail THEN {}
    ELSE {a \in LaunchedAgents(strategy) : world[a].docs # <<>>}

\* The launched agents whose worker returns a non-empty list
Contributing(strategy, world) ==
    {a \in LaunchedAgents(strategy) : ~world[a].fail /\ world[a].docs # <<>>}

\* query(): one multi_agent_retrieval call (the only one, or that of the next
\* sub-question).  The world named name is what each agent's worker does, the
\* same for every sub-question of a run; order is the completion order of the
\* workers that return documents (a worker that raises or returns an empty
\* list adds nothing wherever it completes).
Retrieve(name, order) ==
    /\ pc = "retrieving"
    /\ run.subqs > 0
    /\ run.retrievals = 0 \/ name = run.world
    /\ LET world == Worlds[name]
           launched == LaunchedAgents(run.strategy)
           results == [a \in launched |-> world[a]]
           docs_sq == multi_agent_retrieval(run.strategy, results, order)
           last == run.subqs = 1
       IN  /\ order \in Orders(Contributing(run.strategy, world))
           /\ run' = [run EXCEPT !.subqs = @ - 1, !.world = name,
                                 !.retrievals = @ + 1,
                                 !.agentCalls = @ + Cardinality(launched),
                                 !.documents = @ \o docs_sq]
           /\ currentTrace' = IF last
                              THEN span(cfg.tracing, currentTrace,
                                        "multi_agent_retrieval", "ok")
                              ELSE currentTrace
           /\ pc' = IF last THEN "ranking" ELSE "retrieving"
    /\ UNCHANGED <<cfg, clock, fsTime, cacheDir, lastOp, prevOp, runLog,
                   metrics, traceFile>>

\* query(): from the end of retrieval to the return
Finish(llmOk, llm_text) ==
    /\ pc = "ranking"
    /\ LET documents == run.documents
           intent == run.intent
           cache_ttl == _cache_ttl_for_intent(cfg, intent)
           mt == fsTime + 1
           elapsed == clock - run.start
       IN  IF documents = <<>>
           THEN \* nothing retrieved
                LET no_data_stats == RunRecord(run.query, intent, 0, 0, 0, 0,
                                               elapsed, FALSE, Sentinel, clock,
                                               cache_ttl)
                    entry == LogEntry(no_data_stats)
                IN  /\ llmOk
                    /\ cacheDir' = IF run.hasKey
                                   THEN CacheSet(cacheDir, run.cache_key,
                                                 no_data_stats, TRUE, cache_ttl,
                                                 clock, mt, cfg.max_entries,
                                                 cfg.default_ttl)
                                   ELSE cacheDir
                    /\ fsTime' = IF run.hasKey /\ cfg.max_entries # 0
                                 THEN mt ELSE fsTime
                    /\ runLog' = Append(runLog, entry)
                    /\ metrics' = _update_metrics(metrics, entry)
                    /\ UNCHANGED <<currentTrace, traceFile>>
                    /\ run' = [run EXCEPT !.path = "no_documents",
                                  !.answer = no_data_stats.answer,
                                  !.confidence = 0, !.record = no_data_stats,
                                  !.stored = IF run.hasKey THEN no_data_stats
                                             ELSE NoRecord]
                    /\ pc' = "done"
           ELSE LET reranked_docs == rerank_documents(documents, run.strategy.top_k)
                    compressed_context ==
                        compress_context(reranked_docs, cfg.context_max_chars)
                    context_chars == ContextLen(compressed_context)
                    ga == generate_answer(context_chars, llm_text)
                    ranked == [run EXCEPT !.reranked = reranked_docs,
                                          !.context = compressed_context,
                                          !.rerankCalls = 1,
                                          !.llmCalls = IF ga.callsLlm THEN 1 ELSE 0]
                IN  IF ga.callsLlm /\ ~llmOk
                    THEN \* claude.messages.create raises: query() raises
                         /\ run' = [ranked EXCEPT !.path = "llm_error"]
                         /\ pc' = "done"
                         /\ UNCHANGED <<cacheDir, fsTime, runLog, metrics,
                                        currentTrace, traceFile>>
                    ELSE LET confidence == Confidence(reranked_docs)
                             run_payload ==
                                 RunRecord(run.query, intent, Len(documents),
                                           Len(reranked_docs), context_chars,
                                           confidence, elapsed, FALSE, ga.answer,
                                           clock, cache_ttl)
                             entry == LogEntry(run_payload)
                             ended == end_trace(cfg.tracing, currentTrace, traceFile)
                         IN  /\ (ga.callsLlm \/ llmOk)
                             /\ cacheDir' = IF run.hasKey
                                            THEN CacheSet(cacheDir, run.cache_key,
                                                          run_payload, TRUE,
                                                          cache_ttl, clock, mt,
                                                          cfg.max_entries,
                                                          cfg.default_ttl)
                                            ELSE cacheDir
                             /\ fsTime' = IF run.hasKey /\ cfg.max_entries # 0
                                          THEN mt ELSE fsTime
                             /\ runLog' = Append(runLog, entry)
                             /\ metrics' = _update_metrics(metrics, entry)
                             /\ currentTrace' = ended.trace
                             /\ traceFile' = ended.file
                             /\ run' = [ranked EXCEPT !.path = "full",
                                           !.answer = ga.answer,
                                           !.confidence = confidence,
                                           !.record = run_payload,
                                           !.stored = IF run.hasKey THEN run_payload
                                                      ELSE NoRecord]
                             /\ pc' = "done"
    /\ UNCHANGED <<cfg, clock, lastOp, prevOp>>

\* time passes between two calls of query()
TickSteps == {700}

Advance(d) ==
    /\ pc = "done"
    /\ clock + d <= MaxPipeClock
    /\ clock' = clock + d
    /\ UNCHANGED <<cfg, fsTime, cacheDir, lastOp, prevOp>>
    /\ UNCHANGED pipeVars

Init ==
    /\ cfg \in PipelineConfigs
    /\ clock = 0
    /\ fsTime = 0
    /\ cacheDir = EmptyDir
    /\ lastOp = NoOp
    /\ prevOp = NoOp
    /\ pc = "idle"
    /\ run = IdleRun
    /\ runLog = <<>>
    /\ metrics = ZeroMetrics
    /\ currentTrace = NoTrace
    /\ traceFile = <<>>

Next ==
    \/ \E q \in Queries, concepts \in FastLlmLists, expansions \in FastLlmLists,
          planOk \in BOOLEAN, lines \in PlanLines :
           StartQuery(q, concepts, expansions, planOk, lines)
    \/ \E name \in WorldNames :
           \E order \in Orders(Contributing(run.strategy, Worlds[name])) :
               Retrieve(name, order)
    \/ \E llmOk \in BOOLEAN, llm_text \in LlmAnswers : Finish(llmOk, llm_text)
    \/ \E d \in TickSteps : Advance(d)

Spec == Init /\ [][Next]_vars

(***************************************************************************)
(* Direct use of the QueryCache API: any sequence of set and get calls,    *)
(* with time passing in between, from a directory that is empty or holds   *)
(* the entries an earlier process (possibly with a larger max_entries)     *)
(* left behind.                                                            *)
(***************************************************************************)
CacheKeys == {"k1", "k2", "k3"}
Payloads == {"p1", "p2"}
TtlArgs == {-1, 0, 1}
MaxEntriesValues == {0, 1, 2}

LeftoverDir ==
    [k \in CacheKeys |->
        [ts |-> 0, ttl |-> 2, payload |-> "p0",
         mtime |-> CASE k = "k1" -> 1 [] k = "k2" -> 2 [] OTHER -> 3]]

InitDirs == {EmptyDir, LeftoverDir}

InitCache ==
    /\ \E me \in MaxEntriesValues :
        cfg = Config(TRUE, me, 2, DefaultContextChars, DefaultTopK, TRUE)
    /\ clock = 0
    /\ cacheDir \in InitDirs
    /\ fsTime = Cardinality(DOMAIN cacheDir)
    /\ lastOp = NoOp
    /\ prevOp = NoOp
    /\ pc = "idle"
    /\ run = IdleRun
    /\ runLog = <<>>
    /\ metrics = ZeroMetrics
    /\ currentTrace = NoTrace
    /\ traceFile = <<>>

\* cache.set(key, payload, ttl) called directly
SetCall(key, payload, hasTtl, ttl) ==
    /\ lastOp.n < MaxCalls
    /\ LET mt == fsTime + 1
           written == IF cfg.max_entries = 0 THEN cacheDir
                      ELSE WriteEntry(cacheDir, key,
                               [ts |-> clock,
                                ttl |-> IF hasTtl THEN ttl ELSE cfg.default_ttl,
                                payload |-> payload, mtime |-> mt])
           dir2 == CacheSet(cacheDir, key, payload, hasTtl, ttl, clock, mt,
                            cfg.max_entries, cfg.default_ttl)
       IN  /\ cacheDir' = dir2
           /\ fsTime' = IF cfg.max_entries = 0 THEN fsTime ELSE mt
           /\ prevOp' = lastOp
           /\ lastOp' = [NoOp EXCEPT !.op = "set", !.key = key,
                            !.payload = payload, !.hasTtl = hasTtl,
                            !.ttl = IF hasTtl THEN ttl ELSE cfg.default_ttl,
                            !.at = clock, !.n = lastOp.n + 1,
                            !.before = Cardinality(DOMAIN cacheDir),
                            !.removed = {written[k].mtime :
                                            k \in (DOMAIN written) \ (DOMAIN dir2)}]
    /\ UNCHANGED <<cfg, clock>>
    /\ UNCHANGED pipeVars

\* cache.get(key) called directly
GetCall(key) ==
    /\ lastOp.n < MaxCalls
    /\ LET r == CacheGet(cacheDir, key, clock)
           existed == EntryExists(cacheDir, key)
       IN  /\ cacheDir' = r.dir
           /\ prevOp' = lastOp
           /\ lastOp' = [NoOp EXCEPT !.op = "get", !.key = key,
                            !.payload = r.payload, !.at = clock,
                            !.n = lastOp.n + 1,
                            !.hit = r.hit, !.existed = existed,
                            !.ets = IF existed THEN cacheDir[key].ts ELSE 0,
                            !.ettl = IF existed THEN cacheDir[key].ttl ELSE 0,
                            !.before = Cardinality(DOMAIN cacheDir)]
    /\ UNCHANGED <<cfg, clock, fsTime>>
    /\ UNCHANGED pipeVars

\* one second passes
Tick ==
    /\ clock < MaxClock
    /\ clock' = clock + 1
    /\ UNCHANGED <<cfg, fsTime, cacheDir, lastOp, prevOp>>
    /\ UNCHANGED pipeVars

NextCache ==
    \/ \E key \in CacheKeys, payload \in Payloads, hasTtl \in BOOLEAN, ttl \in TtlArgs :
           SetCall(key, payload, hasTtl, IF hasTtl THEN ttl ELSE 0)
    \/ \E key \in CacheKeys : GetCall(key)
    \/ Tick

SpecCache == InitCache /\ [][NextCache]_vars

(***************************************************************************)
(* process_query with failing tasks.  Each of the four sub-extractors runs *)
(* as a task; when a task raises, the except branch stores                 *)
(* results[key] = None, and results.get(key, default) then finds the key   *)
(* present.  extract_concepts and expand_query catch their own exceptions  *)
(* and return [], so only the temporal and intent tasks can raise: they    *)
(* do when the query is not a str (bytes: `keyword in query_lower` raises  *)
(* TypeError).                                                             *)
(***************************************************************************)
NoneIntent == "None"
NoneTemporal == [none |-> TRUE]

\* The sets of tasks that raise in one process_query call
TaskFailures == {{}, {"temporal", "intent"}}

process_query_tasks(query, concepts, expansions, failed) ==
    LET results == process_query(query, concepts, expansions)
    IN  [original |-> results.original,
         concepts |-> results.concepts,
         expansions |-> results.expansions,
         temporal |-> IF "temporal" \in failed THEN NoneTemporal
                      ELSE results.temporal,
         intent |-> IF "intent" \in failed THEN NoneIntent ELSE results.intent]

\* _decide_retrieval_strategy raises on an analyzed query whose temporal
\* field is None (processed_query['temporal'].get)
StrategyRaises(processed_query) == processed_query.temporal = NoneTemporal

InitAnalyze ==
    /\ cfg \in PipelineConfigs
    /\ clock = 0
    /\ fsTime = 0
    /\ cacheDir = EmptyDir
    /\ lastOp = NoOp
    /\ prevOp = NoOp
    /\ pc = "idle"
    /\ run = IdleRun
    /\ runLog = <<>>
    /\ metrics = ZeroMetrics
    /\ currentTrace = NoTrace
    /\ traceFile = <<>>

\* query() up to the strategy decision: start_trace, process_query inside
\* the query_processing span (the sub-extractor failures are caught inside
\* process_query, so the span closes with status ok), then
\* _decide_retrieval_strategy on its result.  When the strategy decision
\* raises, query() raises and the trace stays open.
AnalyzeCall(q, concepts, expansions, failed) ==
    /\ lastOp.n < MaxCalls
    /\ LET processed_query == process_query_tasks(q, concepts, expansions, failed)
           raised == StrategyRaises(processed_query)
       IN  lastOp' = [op |-> "process_query", n |-> lastOp.n + 1,
                      failed |-> failed,
                      processed_query |-> processed_query,
                      raised |-> raised,
                      strategy |-> IF raised THEN NoStrategy
                                   ELSE _decide_retrieval_strategy(
                                            processed_query, cfg.default_top_k)]
    /\ currentTrace' = span(cfg.tracing,
                            start_trace(cfg.tracing, currentTrace,
                                        lastOp.n + 1, q),
                            "query_processing", "ok")
    /\ UNCHANGED <<cfg, clock, fsTime, cacheDir, prevOp>>
    /\ UNCHANGED <<pc, run, runLog, metrics, traceFile>>

NextAnalyze ==
    \E q \in Queries, concepts \in FastLlmLists, expansions \in FastLlmLists,
       failed \in TaskFailures :
        AnalyzeCall(q, concepts, expansions, failed)

SpecAnalyze == InitAnalyze /\ [][NextAnalyze]_vars

(***************************************************************************)
(* The cache calls of query() under I/O faults.  query() calls             *)
(* self.cache.get and self.cache.set with no try/except of its own, so an  *)
(* exception that leaves QueryCache leaves query().  A cache file holds a  *)
(* record written by set, text that is not JSON, or JSON that is not an    *)
(* object.                                                                 *)
(***************************************************************************)
BadFileKinds == {"not_json", "not_object"}

BadFile(kind, mt) ==
    [ts |-> 0, ttl |-> 0, payload |-> NoPayload, mtime |-> mt, kind |-> kind]

\* QueryCache.get: json.loads(read_text) is inside try/except (unlink, None);
\* raw.get("ts", 0) that follows is not, and raises on JSON that is not an
\* object.
CacheGetIO(dir, key, now) ==
    IF ~EntryExists(dir, key)
    THEN [raised |-> FALSE, hit |-> FALSE, payload |-> NoPayload, dir |-> dir]
    ELSE IF dir[key].kind = "not_json"
    THEN [raised |-> FALSE, hit |-> FALSE, payload |-> NoPayload,
          dir |-> Unlink(dir, key)]
    ELSE IF dir[key].kind = "not_object"
    THEN [raised |-> TRUE, hit |-> FALSE, payload |-> NoPayload, dir |-> dir]
    ELSE LET r == CacheGet(dir, key, now)
         IN  [raised |-> FALSE, hit |-> r.hit, payload |-> r.payload,
              dir |-> r.dir]

NoFile == "none"

\* How a write_text call ends: it writes the whole text; open(path, "w")
\* raises and the path is left as it was; or the open succeeds (the file is
\* created or truncated) and the write that follows raises (disk full, file
\* size limit), which leaves a file holding no complete JSON text.
WriteOutcomes == {"ok", "open_fails", "write_fails"}

\* QueryCache.set: write_text raises OSError when the open or the write
\* fails, and _prune is then not reached; in _prune the sort key p.stat()
\* raises FileNotFoundError when a listed file (vanished) was unlinked by
\* another run after glob listed it.
CacheSetIO(dir, key, payload, ttl, now, mt, max_entries, write, vanished) ==
    IF max_entries = 0 THEN [raised |-> FALSE, dir |-> dir]
    ELSE IF write = "open_fails" THEN [raised |-> TRUE, dir |-> dir]
    ELSE IF write = "write_fails"
    THEN [raised |-> TRUE,
          dir |-> WriteEntry(dir, key, BadFile("not_json", mt))]
    ELSE LET written == WriteEntry(dir, key,
                            [ts |-> now, ttl |-> ttl, payload |-> payload,
                             mtime |-> mt, kind |-> "record"])
         IN  IF vanished \in DOMAIN written
             THEN [raised |-> TRUE, dir |-> Unlink(written, vanished)]
             ELSE [raised |-> FALSE, dir |-> Prune(written, max_entries)]

IOMaxEntries == {1, 2}

InitCacheIO ==
    /\ \E me \in IOMaxEntries :
        cfg = Config(TRUE, me, DefaultTtlSeconds, DefaultContextChars,
                     DefaultTopK, TRUE)
    /\ clock = 0
    /\ fsTime = 0
    /\ cacheDir = EmptyDir
    /\ lastOp = NoOp
    /\ prevOp = NoOp
    /\ pc = "idle"
    /\ run = IdleRun
    /\ runLog = <<>>
    /\ metrics = ZeroMetrics
    /\ currentTrace = NoTrace
    /\ traceFile = <<>>

\* query(): cached_payload = self.cache.get(cache_key)
QueryProbe(key) ==
    /\ lastOp.n < MaxCalls
    /\ LET r == CacheGetIO(cacheDir, key, clock)
       IN  /\ cacheDir' = r.dir
           /\ lastOp' = [op |-> "get", n |-> lastOp.n + 1, key |-> key,
                         bad |-> EntryExists(cacheDir, key)
                                 /\ cacheDir[key].kind \in BadFileKinds,
                         hit |-> r.hit, raised |-> r.raised]
    /\ UNCHANGED <<cfg, clock, fsTime, prevOp>>
    /\ UNCHANGED pipeVars

\* The intents of the runs that store (metadata['intent'])
StoreIntents == {"status", "code", "config"}

\* query(): cache_ttl = self._cache_ttl_for_intent(metadata['intent']);
\* self.cache.set(cache_key, run_payload, ttl=cache_ttl)
QueryStore(key, intent, payload, write, vanished) ==
    /\ lastOp.n < MaxCalls
    /\ LET cache_ttl == _cache_ttl_for_intent(cfg, intent)
           r == CacheSetIO(cacheDir, key, payload, cache_ttl, clock,
                           fsTime + 1, cfg.max_entries, write, vanished)
       IN  /\ cacheDir' = r.dir
           /\ fsTime' = IF cfg.max_entries = 0 \/ write = "open_fails"
                        THEN fsTime ELSE fsTime + 1
           /\ lastOp' = [op |-> "set", n |-> lastOp.n + 1, key |-> key,
                         bad |-> write # "ok" \/ vanished # NoFile,
                         hit |-> FALSE, raised |-> r.raised]
    /\ UNCHANGED <<cfg, clock, prevOp>>
    /\ UNCHANGED pipeVars

\* Something else leaves a file that is not a record (an interrupted or
\* foreign write)
ForeignFile(key, kind) ==
    /\ lastOp.n < MaxCalls
    /\ cacheDir' = WriteEntry(cacheDir, key, BadFile(kind, fsTime + 1))
    /\ fsTime' = fsTime + 1
    /\ lastOp' = [op |-> "foreign", n |-> lastOp.n + 1, key |-> key,
                  bad |-> TRUE, hit |-> FALSE, raised |-> FALSE]
    /\ UNCHANGED <<cfg, clock, prevOp>>
    /\ UNCHANGED pipeVars

NextCacheIO ==
    \/ \E key \in CacheKeys : QueryProbe(key)
    \/ \E key \in CacheKeys, intent \in StoreIntents, payload \in Payloads,
          write \in WriteOutcomes, vanished \in CacheKeys \cup {NoFile} :
           QueryStore(key, intent, payload, write, vanished)
    \/ \E key \in CacheKeys, kind \in BadFileKinds : ForeignFile(key, kind)

SpecCacheIO == InitCacheIO /\ [][NextCacheIO]_vars

(***************************************************************************)
(* query() under Monitor and Tracer I/O faults.  query() calls             *)
(* self.monitor.log_run(...) on each of its four paths and                 *)
(* self.tracer.end_trace(...) on the full path, with no try/except of its  *)
(* own.  The cache and the main LLM do not fail here.                      *)
(***************************************************************************)
\* RAGMonitor.log_run: the append to rag_runs.jsonl (appendOk = FALSE: the
\* open fails) and the write_text of rag_metrics.json are not inside any
\* try/except.  m is what _load_metrics reads from the metrics file: when
\* the write fails after the open the file is left truncated, json.loads
\* rejects it and _load_metrics gives the zero metrics.
LogRunIO(log, m, run_data, appendOk, write) ==
    LET entry == LogEntry(run_data)
    IN  IF ~appendOk
        THEN [raised |-> TRUE, log |-> log, metrics |-> m]
        ELSE IF write = "open_fails"
        THEN [raised |-> TRUE, log |-> Append(log, entry), metrics |-> m]
        ELSE IF write = "write_fails"
        THEN [raised |-> TRUE, log |-> Append(log, entry),
              metrics |-> ZeroMetrics]
        ELSE [raised |-> FALSE, log |-> Append(log, entry),
              metrics |-> _update_metrics(m, entry)]

\* RAGTracer.end_trace: the write of the trace file is inside try/except;
\* current_trace is reset either way
EndTraceIO(enabled, trace, file, writeOk) ==
    IF writeOk THEN end_trace(enabled, trace, file)
    ELSE IF ~enabled \/ ~trace.open THEN [file |-> file, trace |-> trace]
    ELSE [file |-> file, trace |-> NoTrace]

ObserverQueries == {QStatus, QCode, QNone, QPlan}

ObserverWorlds == {"small", "bulk", "empty"}

InitObserverIO ==
    /\ cfg \in PipelineConfigs
    /\ clock = 0
    /\ fsTime = 0
    /\ cacheDir = EmptyDir
    /\ lastOp = NoOp
    /\ prevOp = NoOp
    /\ pc = "idle"
    /\ run = IdleRun
    /\ runLog = <<>>
    /\ metrics = ZeroMetrics
    /\ currentTrace = NoTrace
    /\ traceFile = <<>>

\* documents after the loop over the sub-questions: the list of each
\* retrieval appended to the one before (documents.extend(docs_sq)); orders[i]
\* is the completion order of the workers of the i-th retrieval
RECURSIVE ExtendAll(_, _, _)
ExtendAll(strategy, results, orders) ==
    IF orders = <<>> THEN <<>>
    ELSE multi_agent_retrieval(strategy, results, Head(orders))
             \o ExtendAll(strategy, results, Tail(orders))

\* len(subqs): one retrieval, or one per planned sub-question
SubqCount(strategy, planOk, lines) ==
    IF strategy.use_planning THEN PlannedCount(planOk, lines) ELSE 1

\* The completion orders of the retrievals of one call: one order of the
\* workers that return documents for each sub-question
RetrievalOrders(strategy, world, subqs) ==
    [1..subqs -> Orders(Contributing(strategy, world))]

\* query() from start_trace to the Run Record of its path (log_entry, stats,
\* no_data_stats or run_payload), before the cache.set and the log_run that
\* follow it.  The world named name is what each agent's worker does, the
\* same for every sub-question; orders[i] is the completion order of the
\* workers that return documents in the retrieval of the i-th sub-question.
ComputeAnswer(q, concepts, planOk, lines, name, orders, llm_text) ==
    /\ pc \in {"idle", "done"}
    /\ run.n < MaxRuns
    /\ LET n == run.n + 1
           trace0 == start_trace(cfg.tracing, currentTrace, n, q)
           analysis == Analysis[cfg][q][concepts][<<>>]
           processed_query == analysis.processed_query
           trace1 == span(cfg.tracing, trace0, "query_processing", "ok")
           intent == processed_query.intent
           strategy == analysis.strategy
           hasKey == cfg.cacheEnabled
           cache_key == analysis.cache_key
           got == IF hasKey THEN CacheGet(cacheDir, cache_key, clock)
                  ELSE [hit |-> FALSE, payload |-> NoPayload, dir |-> cacheDir]
           cache_ttl == _cache_ttl_for_intent(cfg, intent)
           world == Worlds[name]
           launched == LaunchedAgents(strategy)
           results == [a \in launched |-> world[a]]
           subqs == SubqCount(strategy, planOk, lines)
           documents == ExtendAll(strategy, results, orders)
           reranked_docs == rerank_documents(documents, strategy.top_k)
           compressed_context ==
               compress_context(reranked_docs, cfg.context_max_chars)
           context_chars == ContextLen(compressed_context)
           base == [IdleRun EXCEPT !.n = n, !.query = q, !.intent = intent,
                                   !.strategy = strategy, !.hasKey = hasKey,
                                   !.cache_key = cache_key, !.start = clock,
                                   !.logAtStart = Len(runLog),
                                   !.tracesAtStart = Len(traceFile)]
       IN  /\ orders \in RetrievalOrders(strategy, world, subqs)
           /\ cacheDir' = got.dir
           /\ IF got.hit
              THEN \* cache hit
                   LET cached_payload == got.payload
                       log_entry == [cached_payload EXCEPT
                                        !.query = q, !.intent = intent,
                                        !.elapsed_sec = clock - base.start,
                                        !.from_cache = TRUE,
                                        !.project = ProjectName,
                                        !.timestamp = clock]
                   IN  /\ currentTrace' = trace1
                       /\ run' = [base EXCEPT !.path = "cache_hit",
                                     !.cached = TRUE,
                                     !.answer = cached_payload.answer,
                                     !.confidence = cached_payload.confidence,
                                     !.record = log_entry]
              ELSE IF strategy.mode = "none"
              THEN \* no retrieval
                   LET ga == generate_answer(0, "")
                       stats == RunRecord(q, intent, 0, 0, 0, NoneConfidence,
                                          clock - base.start, FALSE, ga.answer,
                                          clock, cache_ttl)
                   IN  /\ currentTrace' = trace1
                       /\ run' = [base EXCEPT !.path = "none",
                                     !.answer = ga.answer,
                                     !.confidence = NoneConfidence,
                                     !.record = stats]
              ELSE IF documents = <<>>
              THEN \* nothing retrieved
                   LET no_data_stats == RunRecord(q, intent, 0, 0, 0, 0,
                                            clock - base.start, FALSE,
                                            Sentinel, clock, cache_ttl)
                   IN  /\ currentTrace' = span(cfg.tracing, trace1,
                                               "multi_agent_retrieval", "ok")
                       /\ run' = [base EXCEPT !.path = "no_documents",
                                     !.world = name, !.retrievals = subqs,
                                     !.agentCalls =
                                         subqs * Cardinality(launched),
                                     !.answer = Sentinel, !.confidence = 0,
                                     !.record = no_data_stats]
              ELSE \* the full path
                   LET ga == generate_answer(context_chars, llm_text)
                       confidence == Confidence(reranked_docs)
                       run_payload ==
                           RunRecord(q, intent, Len(documents),
                                     Len(reranked_docs), context_chars,
                                     confidence, clock - base.start, FALSE,
                                     ga.answer, clock, cache_ttl)
                   IN  /\ currentTrace' = span(cfg.tracing, trace1,
                                               "multi_agent_retrieval", "ok")
                       /\ run' = [base EXCEPT !.path = "full",
                                     !.world = name, !.retrievals = subqs,
                                     !.agentCalls =
                                         subqs * Cardinality(launched),
                                     !.documents = documents,
                                     !.reranked = reranked_docs,
                                     !.context = compressed_context,
                                     !.rerankCalls = 1,
                                     !.llmCalls = IF ga.callsLlm THEN 1 ELSE 0,
                                     !.answer = ga.answer,
                                     !.confidence = confidence,
                                     !.record = run_payload]
    /\ pc' = "answered"
    /\ UNCHANGED <<cfg, clock, fsTime, lastOp, prevOp, runLog, metrics,
                   traceFile>>

\* query() from the Run Record of its path to its return: except on a cache
\* hit, self.cache.set(cache_key, <record>, ttl=cache_ttl) if cache_key;
\* self.monitor.log_run(<record>); on the full path
\* self.tracer.end_trace(result=run_payload); return answer, confidence.
\* When log_run raises, query() raises with the entry already stored.
LogAndReturn(appendOk, write, traceOk) ==
    /\ pc = "answered"
    /\ LET stores == run.path # "cache_hit" /\ run.hasKey
           mt == fsTime + 1
           logged == LogRunIO(runLog, metrics, run.record, appendOk, write)
           ended == EndTraceIO(cfg.tracing, currentTrace, traceFile, traceOk)
       IN  /\ cacheDir' = IF stores
                          THEN CacheSet(cacheDir, run.cache_key, run.record,
                                        TRUE, run.record.cache_ttl, clock, mt,
                                        cfg.max_entries, cfg.default_ttl)
                          ELSE cacheDir
           /\ fsTime' = IF stores /\ cfg.max_entries # 0 THEN mt ELSE fsTime
           /\ runLog' = logged.log
           /\ metrics' = logged.metrics
           /\ IF logged.raised
              THEN /\ run' = [run EXCEPT !.path = "monitor_error",
                                 !.stored = IF stores THEN run.record
                                            ELSE NoRecord]
                   /\ UNCHANGED <<currentTrace, traceFile>>
              ELSE IF run.path = "full"
              THEN /\ run' = [run EXCEPT !.stored = IF stores THEN run.record
                                                    ELSE NoRecord]
                   /\ currentTrace' = ended.trace
                   /\ traceFile' = ended.file
              ELSE /\ run' = [run EXCEPT !.stored = IF stores THEN run.record
                                                    ELSE NoRecord]
                   /\ UNCHANGED <<currentTrace, traceFile>>
    /\ pc' = "done"
    /\ UNCHANGED <<cfg, clock, lastOp, prevOp>>

NextObserverIO ==
    \/ \E q \in ObserverQueries, concepts \in FastLlmLists, name \in ObserverWorlds,
          planOk \in BOOLEAN, lines \in PlanLines, llm_text \in LlmAnswers :
           \E orders \in RetrievalOrders(
                             Analysis[cfg][q][concepts][<<>>].strategy,
                             Worlds[name],
                             SubqCount(Analysis[cfg][q][concepts][<<>>].strategy,
                                       planOk, lines)) :
               ComputeAnswer(q, concepts, planOk, lines, name, orders, llm_text)
    \/ \E appendOk \in BOOLEAN, write \in WriteOutcomes, traceOk \in BOOLEAN :
           LogAndReturn(appendOk, write, traceOk)

SpecObserverIO == InitObserverIO /\ [][NextObserverIO]_vars

(***************************************************************************)
(* batch_query(queries, parallel=True): one worker thread per query, each  *)
(* running query() on the same QueryCache, the same RAGMonitor and the     *)
(* same RAGTracer (the global instance of get_tracer).  None of them holds *)
(* a lock, so the threads interleave between the statements modelled as    *)
(* steps here.  pc and run are per thread; cacheDir, runLog, metrics,      *)
(* currentTrace and traceFile are the shared files and the shared tracer   *)
(* attribute.  metrics is the metrics file (see _load_metrics).  The       *)
(* queries differ, so the threads use different cache files.               *)
(***************************************************************************)
NThreads == 2

BatchThreads == 1..NThreads

\* queries[t]: different texts of different intents
BatchQuery(t) ==
    CASE t = 1 -> QStatus
      [] t = 2 -> QCode
      [] OTHER -> QConfig

\* the defaults; RAG_DISABLE_CACHE=1 RAG_TRACING_ENABLED=0
BatchConfigs ==
    { Config(TRUE, DefaultMaxEntries, DefaultTtlSeconds, DefaultContextChars,
             DefaultTopK, TRUE),
      Config(FALSE, DefaultMaxEntries, DefaultTtlSeconds, DefaultContextChars,
             DefaultTopK, FALSE) }

\* What the retrievers return during the batch: the vector store one document
BatchWorld == World(Returned(<<dA>>), Nothing, Nothing, Nothing, Nothing, Nothing)

\* processed_query, strategy and cache_key of thread t
BatchAnalysis(t) == Analysis[cfg][BatchQuery(t)][<<>>][<<>>]

\* run_payload of thread t on the full path
BatchRecord(t) ==
    LET q == BatchQuery(t)
        intent == BatchAnalysis(t).processed_query.intent
        strategy == BatchAnalysis(t).strategy
        results == [a \in LaunchedAgents(strategy) |-> BatchWorld[a]]
        documents == multi_agent_retrieval(strategy, results, <<"vector">>)
        reranked_docs == rerank_documents(documents, strategy.top_k)
        compressed_context ==
            compress_context(reranked_docs, cfg.context_max_chars)
        context_chars == ContextLen(compressed_context)
    IN  RunRecord(q, intent, Len(documents), Len(reranked_docs),
                  context_chars, Confidence(reranked_docs), 0, FALSE,
                  generate_answer(context_chars, "answer1").answer, clock,
                  _cache_ttl_for_intent(cfg, intent))

\* The dict start_trace assigns to current_trace in thread t (n tells the
\* dicts apart: every thread creates one).  end_time and duration tell
\* whether the keys 'end_time' and 'duration_ms' are set; result is the
\* thread whose run_payload end_trace stored under 'result' (0: no such key).
BatchTrace(t) ==
    [open |-> TRUE, n |-> t, query |-> Take(BatchQuery(t), 200), spans |-> <<>>,
     end_time |-> FALSE, duration |-> FALSE, result |-> 0]

\* current_trace = None
BatchNoTrace ==
    [open |-> FALSE, n |-> 0, query |-> <<>>, spans |-> <<>>,
     end_time |-> FALSE, duration |-> FALSE, result |-> 0]

\* A line of the trace file holding the complete JSON text of a trace (of
\* None: the line "null").  torn: the text is not a complete JSON text;
\* ended: the line ends with its newline.
BatchLine(trace) ==
    [open |-> trace.open, n |-> trace.n, query |-> trace.query,
     spans |-> trace.spans, end_time |-> trace.end_time,
     duration |-> trace.duration, result |-> trace.result,
     torn |-> FALSE, ended |-> TRUE]

\* What json.dump leaves in the file when it raises part-way: the beginning
\* of a JSON text and no newline
BatchTornLine ==
    [open |-> FALSE, n |-> 0, query |-> <<>>, spans |-> <<>>,
     end_time |-> FALSE, duration |-> FALSE, result |-> 0,
     torn |-> TRUE, ended |-> FALSE]

\* open(trace_file, 'a') ... close: the text goes to the end of the file,
\* onto the last line when that one has no newline yet (the two texts
\* together are no JSON text)
BatchAppendLine(file, line) ==
    IF file # <<>> /\ ~file[Len(file)].ended
    THEN [file EXCEPT ![Len(file)] = [BatchTornLine EXCEPT !.ended = line.ended]]
    ELSE Append(file, line)

BatchSpanNames == {"query_processing", "multi_agent_retrieval"}

\* span_data of the span thread t opens under the given name
BatchSpan(t, name) ==
    [name |-> name, status |-> "ok",
     attributes |-> IF name = "query_processing"
                    THEN [query_length |-> Len(BatchQuery(t))]
                    ELSE [strategy |-> BatchAnalysis(t).strategy]]

\* The trace a query() of thread t's query persists when it runs alone
BatchTraceAlone(t) ==
    [BatchTrace(t) EXCEPT
        !.spans = <<BatchSpan(t, "query_processing"),
                    BatchSpan(t, "multi_agent_retrieval")>>,
        !.end_time = TRUE, !.duration = TRUE, !.result = t]

\* The threads whose query was answered by a query() call before the batch:
\* its entry is in the cache, its line in the run log, its trace in the
\* trace file
BatchEarlier == lastOp.earlier

\* The threads of earlier, in increasing order: the order of the calls made
\* before the batch
BatchOrder(earlier) ==
    SelectSeq([t \in BatchThreads |-> t], LAMBDA t : t \in earlier)

\* set(): the directory after write_text wrote the record and _prune ran
\* with every stat succeeding
BatchCacheStored(dir, key, payload, ttl, now, mt, max_entries) ==
    IF max_entries = 0 THEN dir
    ELSE Prune(WriteEntry(dir, key,
                          [ts |-> now, ttl |-> ttl, payload |-> payload,
                           mtime |-> mt, kind |-> "record"]),
               max_entries)

RECURSIVE BatchCacheAfter(_, _)
\* The cache directory after the first k of these calls
BatchCacheAfter(order, k) ==
    IF k = 0 \/ ~cfg.cacheEnabled THEN EmptyDir
    ELSE BatchCacheStored(BatchCacheAfter(order, k - 1),
                          BatchAnalysis(order[k]).cache_key,
                          BatchRecord(order[k]),
                          BatchRecord(order[k]).cache_ttl, clock, k,
                          cfg.max_entries)

RECURSIVE BatchMetricsAfter(_, _)
\* The metrics file after the first k of these calls
BatchMetricsAfter(order, k) ==
    IF k = 0 THEN MissingMetricsFile
    ELSE [exists |-> TRUE, parses |-> TRUE,
          data |-> _update_metrics(
                       _load_metrics(BatchMetricsAfter(order, k - 1)),
                       LogEntry(BatchRecord(order[k])))]

\* Local variables of thread t's query(): span is the name of the span it is
\* in or entered last, span_data whether span() created span_data for it,
\* record its Run Record, loaded what _load_metrics returned, logged whether
\* its log_run returned, error the exception query() raised.  While its
\* json.dump runs: obj is the dict it was handed (0: None), seen the states
\* that dict went through since.
BatchIdleRun ==
    [hit |-> FALSE, span |-> "query_processing", span_data |-> FALSE,
     record |-> NoRecord, loaded |-> ZeroMetrics, logged |-> FALSE,
     error |-> "", obj |-> 0, seen |-> <<>>]

\* The threads' locals after thread t changed the current trace dict into
\* after: a json.dump of the same dict running in another thread works on
\* the changed dict.
BatchObserved(t, after) ==
    [u \in BatchThreads |->
        IF u # t /\ pc[u] = "dumping" /\ run[u].obj = after.n
        THEN [run[u] EXCEPT
                 !.seen = IF after = @[Len(@)] THEN @ ELSE Append(@, after)]
        ELSE run[u]]

InitBatch ==
    /\ cfg \in BatchConfigs
    /\ clock = 0
    /\ prevOp = NoOp
    /\ pc = [t \in BatchThreads |-> "idle"]
    /\ run = [t \in BatchThreads |-> BatchIdleRun]
    /\ currentTrace = BatchNoTrace
    /\ \E earlier \in SUBSET BatchThreads :
           LET order == BatchOrder(earlier)
               n == Len(order)
           IN  /\ lastOp = [op |-> "batch", earlier |-> earlier]
               /\ cacheDir = BatchCacheAfter(order, n)
               /\ fsTime = IF cfg.cacheEnabled /\ cfg.max_entries # 0
                           THEN n ELSE 0
               /\ runLog = [i \in 1..n |-> LogEntry(BatchRecord(order[i]))]
               /\ metrics = BatchMetricsAfter(order, n)
               /\ traceFile = IF cfg.tracing
                               THEN [i \in 1..n |->
                                        BatchLine(BatchTraceAlone(order[i]))]
                               ELSE <<>>

\* query(): self.tracer.start_trace(...): replaces whatever current_trace held
BatchStartTrace(t) ==
    /\ pc[t] = "idle"
    /\ currentTrace' = IF cfg.tracing THEN BatchTrace(t) ELSE currentTrace
    /\ pc' = [pc EXCEPT ![t] = "started"]
    /\ UNCHANGED <<cfg, clock, fsTime, cacheDir, lastOp, prevOp, run, runLog,
                   metrics, traceFile>>

\* span(): entering `with self.tracer.span(name, ...)`, for query_processing
\* and, after a cache miss, for multi_agent_retrieval: span_data is created
\* iff the tracer is enabled and a trace is current
BatchSpanEnter(t) ==
    /\ pc[t] \in {"started", "missed"}
    /\ run' = [run EXCEPT ![t].span_data = cfg.tracing /\ currentTrace.open]
    /\ pc' = [pc EXCEPT ![t] = "in_span"]
    /\ UNCHANGED <<cfg, clock, fsTime, cacheDir, lastOp, prevOp, runLog,
                   metrics, currentTrace, traceFile>>

\* where query() goes on after the span thread t is in
BatchAfterSpan(t) ==
    IF run[t].span = "query_processing" THEN "lookup" ELSE "retrieved"

\* span(): leaving the block: the finally clause, whose `if
\* self.current_trace: self.current_trace['spans'].append(span_data)` reads
\* current_trace twice with no other thread running in between, so the span
\* goes to the trace that is current at the test (nothing is done without
\* span_data, nor when no trace is current)
BatchSpanExit(t) ==
    /\ pc[t] = "in_span"
    /\ IF run[t].span_data /\ currentTrace.open
       THEN /\ currentTrace' = [currentTrace EXCEPT !.spans =
                                   Append(@, BatchSpan(t, run[t].span))]
            /\ run' = BatchObserved(t, currentTrace')
       ELSE UNCHANGED <<currentTrace, run>>
    /\ pc' = [pc EXCEPT ![t] = BatchAfterSpan(t)]
    /\ UNCHANGED <<cfg, clock, fsTime, cacheDir, lastOp, prevOp, runLog,
                   metrics, traceFile>>

\* query(): cached_payload = self.cache.get(cache_key) if cache_key else None;
\* on a hit log_entry is built, otherwise the run goes on to retrieval and
\* to its run_payload
BatchCacheGet(t) ==
    /\ pc[t] = "lookup"
    /\ LET got == IF cfg.cacheEnabled
                  THEN CacheGetIO(cacheDir, BatchAnalysis(t).cache_key, clock)
                  ELSE [raised |-> FALSE, hit |-> FALSE, payload |-> NoPayload,
                        dir |-> cacheDir]
           log_entry == [got.payload EXCEPT
                            !.query = BatchQuery(t),
                            !.intent = BatchAnalysis(t).processed_query.intent,
                            !.elapsed_sec = 0,
                            !.from_cache = TRUE,
                            !.project = ProjectName,
                            !.timestamp = clock]
       IN  /\ cacheDir' = got.dir
           /\ IF got.hit
              THEN /\ run' = [run EXCEPT ![t].hit = TRUE,
                                         ![t].record = log_entry]
                   /\ pc' = [pc EXCEPT ![t] = "computed"]
              ELSE /\ run' = [run EXCEPT ![t].span = "multi_agent_retrieval",
                                         ![t].record = BatchRecord(t)]
                   /\ pc' = [pc EXCEPT ![t] = "missed"]
    /\ UNCHANGED <<cfg, clock, fsTime, lastOp, prevOp, runLog, metrics,
                   currentTrace, traceFile>>

\* query(): if cache_key: self.cache.set(cache_key, run_payload, ttl=cache_ttl),
\* up to open(path, "w") inside write_text: the entry file exists and is
\* empty.  Without a cache, or with max_entries = 0, set does nothing.
BatchCacheOpen(t) ==
    /\ pc[t] = "retrieved"
    /\ IF cfg.cacheEnabled /\ cfg.max_entries # 0
       THEN /\ cacheDir' = WriteEntry(cacheDir, BatchAnalysis(t).cache_key,
                                      BadFile("not_json", fsTime + 1))
            /\ fsTime' = fsTime + 1
            /\ pc' = [pc EXCEPT ![t] = "caching"]
       ELSE /\ UNCHANGED <<cacheDir, fsTime>>
            /\ pc' = [pc EXCEPT ![t] = "computed"]
    /\ UNCHANGED <<cfg, clock, lastOp, prevOp, run, runLog, metrics,
                   currentTrace, traceFile>>

\* set: the write of the record to the open file, its close, and _prune.
\* During a batch nothing unlinks an entry file: every thread reads its own
\* key only, before it writes it, no entry is older than its ttl, and the
\* directory holds at most NThreads files, fewer than max_entries.  So the
\* path is still there and every stat of _prune succeeds.
BatchCacheWrite(t) ==
    /\ pc[t] = "caching"
    /\ cacheDir' = BatchCacheStored(cacheDir, BatchAnalysis(t).cache_key,
                                    run[t].record, run[t].record.cache_ttl,
                                    clock, fsTime + 1, cfg.max_entries)
    /\ fsTime' = fsTime + 1
    /\ pc' = [pc EXCEPT ![t] = "computed"]
    /\ UNCHANGED <<cfg, clock, lastOp, prevOp, run, runLog, metrics,
                   currentTrace, traceFile>>

\* log_run: the line appended to rag_runs.jsonl
BatchLogAppend(t) ==
    /\ pc[t] = "computed"
    /\ runLog' = Append(runLog, LogEntry(run[t].record))
    /\ pc' = [pc EXCEPT ![t] = "appended"]
    /\ UNCHANGED <<cfg, clock, fsTime, cacheDir, lastOp, prevOp, run, metrics,
                   currentTrace, traceFile>>

\* _update_metrics: metrics = self._load_metrics()
BatchLoadMetrics(t) ==
    /\ pc[t] = "appended"
    /\ run' = [run EXCEPT ![t].loaded = _load_metrics(metrics)]
    /\ pc' = [pc EXCEPT ![t] = "loaded"]
    /\ UNCHANGED <<cfg, clock, fsTime, cacheDir, lastOp, prevOp, runLog,
                   metrics, currentTrace, traceFile>>

\* _update_metrics: the increments on the loaded dict, then write_text opens
\* the file for writing, which empties it
BatchOpenMetrics(t) ==
    /\ pc[t] = "loaded"
    /\ metrics' = EmptyMetricsFile
    /\ pc' = [pc EXCEPT ![t] = "opened"]
    /\ UNCHANGED <<cfg, clock, fsTime, cacheDir, lastOp, prevOp, run, runLog,
                   currentTrace, traceFile>>

\* _update_metrics: write_text writes the text at the start of the file.  If
\* another thread wrote since this one opened the file, and this text is
\* shorter than that one, the end of that text stays behind it and the file
\* no longer parses.  log_run returns; the cache-hit path of query() then
\* returns without end_trace.
BatchWriteMetrics(t, shorter) ==
    /\ pc[t] = "opened"
    /\ LET new == _update_metrics(run[t].loaded, LogEntry(run[t].record))
       IN  metrics' = IF metrics = EmptyMetricsFile \/ ~shorter
                      THEN [exists |-> TRUE, parses |-> TRUE, data |-> new]
                      ELSE [exists |-> TRUE, parses |-> FALSE,
                            data |-> metrics.data]
    /\ run' = [run EXCEPT ![t].logged = TRUE]
    /\ pc' = [pc EXCEPT ![t] = IF run[t].hit THEN "done" ELSE "logged"]
    /\ UNCHANGED <<cfg, clock, fsTime, cacheDir, lastOp, prevOp, runLog,
                   currentTrace, traceFile>>

\* end_trace: if not self.enabled or not self.current_trace: return
BatchEndTrace(t) ==
    /\ pc[t] = "logged"
    /\ pc' = [pc EXCEPT ![t] = IF cfg.tracing /\ currentTrace.open
                               THEN "ending" ELSE "done"]
    /\ UNCHANGED <<cfg, clock, fsTime, cacheDir, lastOp, prevOp, run, runLog,
                   metrics, currentTrace, traceFile>>

\* end_trace: after time.time() returned, self.current_trace['end_time'] = ...
\* on whatever trace is current now (TypeError when it has become None),
\* and the reads of its 'end_time' and 'start_time' for the duration, up to
\* the call of round: no other thread runs between the store and the reads
BatchEndTraceStamp(t) ==
    /\ pc[t] = "ending"
    /\ IF currentTrace.open
       THEN /\ currentTrace' = [currentTrace EXCEPT !.end_time = TRUE]
            /\ pc' = [pc EXCEPT ![t] = "stamped"]
            /\ run' = BatchObserved(t, currentTrace')
       ELSE /\ currentTrace' = currentTrace
            /\ pc' = [pc EXCEPT ![t] = "raised"]
            /\ run' = [run EXCEPT ![t].error = "TypeError"]
    /\ UNCHANGED <<cfg, clock, fsTime, cacheDir, lastOp, prevOp, runLog,
                   metrics, traceFile>>

\* end_trace: self.current_trace['duration_ms'] = round(...): once round has
\* returned, the store into whatever trace is current now, be it one
\* another thread started since, which has no 'end_time' (TypeError when
\* current_trace has become None)
BatchEndTraceDuration(t) ==
    /\ pc[t] = "stamped"
    /\ IF currentTrace.open
       THEN /\ currentTrace' = [currentTrace EXCEPT !.duration = TRUE]
            /\ pc' = [pc EXCEPT ![t] = "timed"]
            /\ run' = BatchObserved(t, currentTrace')
       ELSE /\ currentTrace' = currentTrace
            /\ pc' = [pc EXCEPT ![t] = "raised"]
            /\ run' = [run EXCEPT ![t].error = "TypeError"]
    /\ UNCHANGED <<cfg, clock, fsTime, cacheDir, lastOp, prevOp, runLog,
                   metrics, traceFile>>

\* end_trace: if result: self.current_trace['result'] = {...} (TypeError when
\* current_trace has become None)
BatchEndTraceResult(t) ==
    /\ pc[t] = "timed"
    /\ IF currentTrace.open
       THEN /\ currentTrace' = [currentTrace EXCEPT !.result = t]
            /\ pc' = [pc EXCEPT ![t] = "resulted"]
            /\ run' = BatchObserved(t, currentTrace')
       ELSE /\ currentTrace' = currentTrace
            /\ pc' = [pc EXCEPT ![t] = "raised"]
            /\ run' = [run EXCEPT ![t].error = "TypeError"]
    /\ UNCHANGED <<cfg, clock, fsTime, cacheDir, lastOp, prevOp, runLog,
                   metrics, traceFile>>

\* end_trace: open(trace_file, 'a') and the call json.dump(
\* self.current_trace, f): the dump is handed whatever current_trace is now
\* (None is encoded as "null").  The encoder starts to iterate over the dict
\* later, other threads running in between.
BatchEndTraceDump(t) ==
    /\ pc[t] = "resulted"
    /\ run' = [run EXCEPT ![t].obj = currentTrace.n,
                          ![t].seen = <<currentTrace>>]
    /\ pc' = [pc EXCEPT ![t] = "dumping"]
    /\ UNCHANGED <<cfg, clock, fsTime, cacheDir, lastOp, prevOp, runLog,
                   metrics, currentTrace, traceFile>>

\* Which of the keys 'end_time', 'duration_ms' and 'result' a trace has
BatchKeys(trace) == <<trace.end_time, trace.duration, trace.result # 0>>

\* The texts the json.dump of thread t can have produced.  The encoder starts
\* its iteration over the dict in some state the dict went through since the
\* call, and reads the keys in insertion order, 'spans' before 'result',
\* each at some later moment: it encodes the keys of one state, the spans
\* of that or a later state, and the result of that or a still later one,
\* no key being added in between.  A key added while the encoder iterates
\* makes it raise RuntimeError (dictionary changed size during iteration),
\* which end_trace catches: the text stops part-way.
BatchDumpLines(t) ==
    LET seen == run[t].seen
    IN  UNION {{BatchLine([seen[i] EXCEPT !.result = seen[j].result]) :
                   j \in {k \in i..Len(seen) :
                             BatchKeys(seen[k]) = BatchKeys(seen[i])}} :
               i \in 1..Len(seen)}
        \cup (IF BatchKeys(seen[Len(seen)]) # BatchKeys(seen[1])
              THEN {BatchTornLine} ELSE {})

\* end_trace: the encoder's iteration, f.write('\n') and the close of the
\* file, which appends what was written to the trace file
BatchEndTraceWrite(t) ==
    /\ pc[t] = "dumping"
    /\ \E line \in BatchDumpLines(t) :
           traceFile' = BatchAppendLine(traceFile, line)
    /\ run' = [run EXCEPT ![t].obj = 0, ![t].seen = <<>>]
    /\ pc' = [pc EXCEPT ![t] = "written"]
    /\ UNCHANGED <<cfg, clock, fsTime, cacheDir, lastOp, prevOp, runLog,
                   metrics, currentTrace>>

\* end_trace: self.current_trace = None; query() returns
BatchEndTraceReset(t) ==
    /\ pc[t] = "written"
    /\ currentTrace' = BatchNoTrace
    /\ pc' = [pc EXCEPT ![t] = "done"]
    /\ UNCHANGED <<cfg, clock, fsTime, cacheDir, lastOp, prevOp, run, runLog,
                   metrics, traceFile>>

NextBatch ==
    \E t \in BatchThreads :
        \/ BatchStartTrace(t)
        \/ BatchSpanEnter(t)
        \/ BatchSpanExit(t)
        \/ BatchCacheGet(t)
        \/ BatchCacheOpen(t)
        \/ BatchCacheWrite(t)
        \/ BatchLogAppend(t)
        \/ BatchLoadMetrics(t)
        \/ BatchOpenMetrics(t)
        \/ \E shorter \in BOOLEAN : BatchWriteMetrics(t, shorter)
        \/ BatchEndTrace(t)
        \/ BatchEndTraceStamp(t)
        \/ BatchEndTraceDuration(t)
        \/ BatchEndTraceResult(t)
        \/ BatchEndTraceDump(t)
        \/ BatchEndTraceWrite(t)
        \/ BatchEndTraceReset(t)

SpecBatch == InitBatch /\ [][NextBatch]_vars

(***************************************************************************)
(* A set(K, p) and a get(K) of two concurrent runs on the same cache       *)
(* directory.  set writes with path.write_text: open(path, "w") creates or *)
(* truncates the file, and the record is written to the open file          *)
(* afterwards; there is no temporary file, rename or lock.  _prune lists   *)
(* the directory and then stats every listed path.  get reads the file     *)
(* and, when json.loads rejects what it read, unlinks the path.  pc and    *)
(* run have a writer (w) and a reader (r) part.                            *)
(***************************************************************************)
RaceKey == "k1"

\* The complete entry an earlier set left under RaceKey
PreviousEntry ==
    [ts |-> 0, ttl |-> DefaultTtlSeconds, payload |-> "p0", mtime |-> 1,
     kind |-> "record"]

InitCacheRace ==
    /\ \E me \in IOMaxEntries :
        cfg = Config(TRUE, me, DefaultTtlSeconds, DefaultContextChars,
                     DefaultTopK, TRUE)
    /\ clock = 0
    /\ cacheDir \in {EmptyDir, WriteEntry(EmptyDir, RaceKey, PreviousEntry)}
    /\ fsTime = Cardinality(DOMAIN cacheDir)
    /\ lastOp = NoOp
    /\ prevOp = NoOp
    /\ pc = [w |-> "idle", r |-> "idle"]
    /\ run = [payload |-> NoPayload, mt |-> 0, sets |-> 0, gets |-> 0,
              hit |-> FALSE, got |-> NoPayload, unlinkedOpen |-> FALSE,
              files |-> {}, error |-> ""]
    /\ runLog = <<>>
    /\ metrics = ZeroMetrics
    /\ currentTrace = NoTrace
    /\ traceFile = <<>>

\* set: open(path, "w") inside write_text: the file exists and is empty
RaceSetOpen(payload) ==
    /\ pc.w = "idle"
    /\ run.sets < MaxCalls
    /\ cacheDir' = WriteEntry(cacheDir, RaceKey, BadFile("not_json", fsTime + 1))
    /\ fsTime' = fsTime + 1
    /\ run' = [run EXCEPT !.payload = payload, !.mt = fsTime + 1,
                          !.sets = @ + 1, !.unlinkedOpen = FALSE,
                          !.error = ""]
    /\ pc' = [pc EXCEPT !.w = "opened"]
    /\ UNCHANGED <<cfg, clock, lastOp, prevOp, runLog, metrics, currentTrace,
                   traceFile>>

\* set: the write to the open file and its close.  When the path was
\* unlinked since the open, the data goes to a file no path names.
RaceSetWrite ==
    /\ pc.w = "opened"
    /\ cacheDir' =
           IF EntryExists(cacheDir, RaceKey) /\ cacheDir[RaceKey].mtime = run.mt
           THEN WriteEntry(cacheDir, RaceKey,
                    [ts |-> clock, ttl |-> cfg.default_ttl,
                     payload |-> run.payload, mtime |-> run.mt,
                     kind |-> "record"])
           ELSE cacheDir
    /\ pc' = [pc EXCEPT !.w = "written"]
    /\ UNCHANGED <<cfg, clock, fsTime, lastOp, prevOp, run, runLog, metrics,
                   currentTrace, traceFile>>

\* set: _prune: self.cache_dir.glob("*.json"), consumed by sorted(): the
\* paths that exist now
RaceSetPruneGlob ==
    /\ pc.w = "written"
    /\ run' = [run EXCEPT !.files = DOMAIN cacheDir]
    /\ pc' = [pc EXCEPT !.w = "listed"]
    /\ UNCHANGED <<cfg, clock, fsTime, cacheDir, lastOp, prevOp, runLog,
                   metrics, currentTrace, traceFile>>

\* set: _prune: the sort key p.stat().st_mtime of every listed path, then
\* the unlink of files[max_entries:].  A listed path that was unlinked since
\* the listing makes stat raise FileNotFoundError out of set().
RaceSetPruneStat ==
    /\ pc.w = "listed"
    /\ IF run.files \subseteq DOMAIN cacheDir
       THEN LET files == [k \in run.files |-> cacheDir[k]]
                stale == PrunedKeys(files, cfg.max_entries)
            IN  /\ cacheDir' = [k \in (DOMAIN cacheDir) \ stale |-> cacheDir[k]]
                /\ run' = [run EXCEPT !.files = {}]
       ELSE /\ cacheDir' = cacheDir
            /\ run' = [run EXCEPT !.files = {},
                                  !.error = "FileNotFoundError"]
    /\ pc' = [pc EXCEPT !.w = "idle"]
    /\ UNCHANGED <<cfg, clock, fsTime, lastOp, prevOp, runLog, metrics,
                   currentTrace, traceFile>>

\* get: path.exists(), read_text and json.loads; a record is served (or
\* unlinked when expired), anything else sends get to its except branch
RaceGetRead ==
    /\ pc.r = "idle"
    /\ run.gets < MaxCalls
    /\ IF EntryExists(cacheDir, RaceKey) /\ cacheDir[RaceKey].kind # "record"
       THEN /\ pc' = [pc EXCEPT !.r = "rejected"]
            /\ run' = [run EXCEPT !.gets = @ + 1, !.hit = FALSE,
                                  !.got = NoPayload]
            /\ UNCHANGED cacheDir
       ELSE LET r == CacheGet(cacheDir, RaceKey, clock)
            IN  /\ cacheDir' = r.dir
                /\ run' = [run EXCEPT !.gets = @ + 1, !.hit = r.hit,
                                      !.got = r.payload]
                /\ pc' = pc
    /\ UNCHANGED <<cfg, clock, fsTime, lastOp, prevOp, runLog, metrics,
                   currentTrace, traceFile>>

\* get: except Exception: path.unlink(missing_ok=True); return None
RaceGetUnlink ==
    /\ pc.r = "rejected"
    /\ cacheDir' = Unlink(cacheDir, RaceKey)
    /\ run' = [run EXCEPT !.unlinkedOpen =
                  @ \/ (pc.w \in {"opened", "written"}
                        /\ EntryExists(cacheDir, RaceKey))]
    /\ pc' = [pc EXCEPT !.r = "idle"]
    /\ UNCHANGED <<cfg, clock, fsTime, lastOp, prevOp, runLog, metrics,
                   currentTrace, traceFile>>

NextCacheRace ==
    \/ \E payload \in Payloads : RaceSetOpen(payload)
    \/ RaceSetWrite
    \/ RaceSetPruneGlob
    \/ RaceSetPruneStat
    \/ RaceGetRead
    \/ RaceGetUnlink

SpecCacheRace == InitCacheRace /\ [][NextCacheRace]_vars

(***************************************************************************)
(* query() called again on the same input while the entry of the first     *)
(* call may still be fresh: the pipeline of Spec with less time between    *)
(* two calls than the status ttl (180 s) and more than the code ttl (90 s).*)
(***************************************************************************)
RepeatQueries == {QStatus, QCode}
RepeatWorlds == {"small", "empty"}
RepeatTicks == {100}

NextRepeat ==
    \/ \E q \in RepeatQueries, concepts \in FastLlmLists :
           StartQuery(q, concepts, <<>>, TRUE, 0)
    \/ \E name \in RepeatWorlds :
           \E order \in Orders(Contributing(run.strategy, Worlds[name])) :
               Retrieve(name, order)
    \/ \E llm_text \in LlmAnswers : Finish(TRUE, llm_text)
    \/ \E d \in RepeatTicks : Advance(d)

SpecRepeat == Init /\ [][NextRepeat]_vars

(***************************************************************************)
(* The cache key as a function of the query text: the normalization of     *)
(* _build_cache_key and the key of a query, over all short texts of a      *)
(* small alphabet (letters of the keyword "bug", punctuation, a space).    *)
(***************************************************************************)
MaxTextLen == 4

TextAlphabet == {"b", "u", "g", "!", " "}

Texts == UNION {[1..n -> TextAlphabet] : n \in 0..MaxTextLen}

NormTable == [q \in Texts |-> NormalizeQuery(q)]

\* query(): the cache key of a query under configuration c (the analysis,
\* the strategy, then _build_cache_key)
KeyOfQuery(c, q) ==
    LET processed_query == process_query(q, <<>>, <<>>)
        strategy == _decide_retrieval_strategy(processed_query, c.default_top_k)
    IN  _build_cache_key(q, processed_query, strategy, c.context_max_chars)

\* Two query texts that have the same normalized text
InitKey ==
    /\ cfg = Config(TRUE, DefaultMaxEntries, DefaultTtlSeconds,
                    DefaultContextChars, DefaultTopK, TRUE)
    /\ clock = 0
    /\ fsTime = 0
    /\ cacheDir = EmptyDir
    /\ \E q1 \in Texts, q2 \in Texts :
           /\ NormTable[q1] = NormTable[q2]
           /\ lastOp = [op |-> "input", q1 |-> q1, q2 |-> q2]
    /\ prevOp = NoOp
    /\ pc = "idle"
    /\ run = IdleRun
    /\ runLog = <<>>
    /\ metrics = ZeroMetrics
    /\ currentTrace = NoTrace
    /\ traceFile = <<>>

\* the normalization applied to the first text and to its own result, and
\* the cache keys of the two queries
KeyCall ==
    /\ lastOp.op = "input"
    /\ lastOp' = [op |-> "keys", q1 |-> lastOp.q1, q2 |-> lastOp.q2,
                  once |-> NormTable[lastOp.q1],
                  twice |-> NormalizeQuery(NormTable[lastOp.q1]),
                  key1 |-> KeyOfQuery(cfg, lastOp.q1),
                  key2 |-> KeyOfQuery(cfg, lastOp.q2)]
    /\ UNCHANGED <<cfg, clock, fsTime, cacheDir, prevOp>>
    /\ UNCHANGED pipeVars

NextKey == KeyCall

SpecKey == InitKey /\ [][NextKey]_vars

(***************************************************************************)
(* The pipeline with RAG_DISABLE_CACHE=1 (self.cache is None).  A process  *)
(* is one AdvancedRAGv2 instance; the cache directory, the run log, the    *)
(* metrics file and the trace file outlive it.  The first process has the  *)
(* cache disabled, or it has the cache enabled, answers queries (which     *)
(* leaves their entries in the directory) and is followed by a process     *)
(* with the cache disabled on the same directories.  lastOp records how    *)
(* the current process was started and what it found.                      *)
(***************************************************************************)
DefaultConfig ==
    Config(TRUE, DefaultMaxEntries, DefaultTtlSeconds, DefaultContextChars,
           DefaultTopK, TRUE)

DisabledConfig ==
    Config(FALSE, DefaultMaxEntries, DefaultTtlSeconds, DefaultContextChars,
           DefaultTopK, FALSE)

DisabledQueries == {QStatus, QCode, QNone, QPlan}
DisabledWorlds == {"small", "empty"}
RestartDelays == {100}

\* AdvancedRAGv2.__init__ of a process: whether RAG_DISABLE_CACHE=1 is set,
\* the cache directory and its latest modification time at that moment, and
\* the number of lines of the run log
ProcessStart(disable_cache, dir, mtime, logged) ==
    [op |-> "process", disable_cache |-> disable_cache, dir |-> dir,
     mtime |-> mtime, logged |-> logged]

InitDisabled ==
    /\ \E disable_cache \in BOOLEAN :
           /\ cfg = IF disable_cache THEN DisabledConfig ELSE DefaultConfig
           /\ lastOp = ProcessStart(disable_cache, EmptyDir, 0, 0)
    /\ clock = 0
    /\ fsTime = 0
    /\ cacheDir = EmptyDir
    /\ prevOp = NoOp
    /\ pc = "idle"
    /\ run = IdleRun
    /\ runLog = <<>>
    /\ metrics = ZeroMetrics
    /\ currentTrace = NoTrace
    /\ traceFile = <<>>

\* The process with the cache enabled ends after a query; d seconds later a
\* process starts with RAG_DISABLE_CACHE=1 (and tracing off) on the same
\* directories
DisabledRestart(d) ==
    /\ pc = "done"
    /\ ~lastOp.disable_cache
    /\ clock + d <= MaxPipeClock
    /\ cfg' = DisabledConfig
    /\ clock' = clock + d
    /\ lastOp' = ProcessStart(TRUE, cacheDir, fsTime, Len(runLog))
    /\ pc' = "idle"
    /\ run' = IdleRun
    /\ currentTrace' = NoTrace
    /\ UNCHANGED <<fsTime, cacheDir, prevOp, runLog, metrics, traceFile>>

NextDisabled ==
    \/ \E q \in DisabledQueries, planOk \in BOOLEAN, lines \in PlanLines :
           StartQuery(q, <<>>, <<>>, planOk, lines)
    \/ \E name \in DisabledWorlds :
           \E order \in Orders(Contributing(run.strategy, Worlds[name])) :
               Retrieve(name, order)
    \/ \E llm_text \in LlmAnswers : Finish(TRUE, llm_text)
    \/ \E d \in RestartDelays : DisabledRestart(d)

SpecDisabled == InitDisabled /\ [][NextDisabled]_vars

(***************************************************************************)
(* Properties.  The cache properties (C2, C3, C4) are stated over          *)
(* SpecCache, the others over Spec.                                        *)
(***************************************************************************)
\* A query() call has returned normally (it did not raise)
ReturnedNormally == pc = "done" /\ run.path \in {"cache_hit", "none", "no_documents", "full"}

\* C1: every run of query() that terminates (by cache hit, by mode=none, by
\* empty retrieval or by the full path) has logged exactly one Run Record
\* and has closed its trace when it returns: no trace is left open.
C1_EveryRunLogsAndClosesTrace ==
    ReturnedNormally => /\ Len(runLog) = run.logAtStart + 1
                 /\ ~currentTrace.open

\* C2: get returns a stored payload only when now - ts <= ttl holds for the
\* entry, and for an entry older than its ttl (whatever ttl set stored, 0
\* included) get returns a miss and deletes the entry file.
C2_GetServesOnlyFreshEntries ==
    lastOp.op = "get" =>
        /\ lastOp.hit => lastOp.at - lastOp.ets <= lastOp.ettl
        /\ (lastOp.existed /\ lastOp.at - lastOp.ets > lastOp.ettl)
               => (~lastOp.hit /\ ~EntryExists(cacheDir, lastOp.key))

\* set(K, p, ttl) immediately followed by get(K) no later than ttl seconds
\* after it
SetThenGetWithinTtl ==
    /\ prevOp.op = "set"
    /\ lastOp.op = "get"
    /\ lastOp.key = prevOp.key
    /\ lastOp.at - prevOp.at <= prevOp.ttl

C4_SetKeepsMostRecentWithinCap ==
    lastOp.op = "set" =>
        /\ Cardinality(DOMAIN cacheDir) <= cfg.max_entries
        /\ \A m \in lastOp.removed :
               \A k \in DOMAIN cacheDir : m < cacheDir[k].mtime

\* The outcome of an empty retrieval, the cache apart
EmptyRetrievalOutcome ==
    /\ run.documents = <<>>
    /\ run.answer = Sentinel
    /\ run.confidence = 0
    /\ run.record.confidence = 0
    /\ run.record.retrieved = 0
    /\ run.rerankCalls = 0
    /\ run.llmCalls = 0

\* The cache holds the run's record under the run's key, with the TTL that
\* the policy gives the run's intent
StoredWithIntentTtl ==
    /\ EntryExists(cacheDir, run.cache_key)
    /\ cacheDir[run.cache_key].payload = run.record
    /\ cacheDir[run.cache_key].ttl = cfg.policy[run.intent]
    /\ run.record.cache_ttl = cfg.policy[run.intent]

\* C5 as stated: when retrieval returns no documents (with planning: when the
\* union over the sub-questions is empty) the run returns the sentinel with
\* confidence 0, calls neither the re-ranker nor the main LLM, and stores the
\* Run Record in the cache with the TTL of the query's intent.
C5_EmptyRetrievalIsCached ==
    (pc = "done" /\ run.path = "no_documents") =>
        (EmptyRetrievalOutcome /\ StoredWithIntentTtl)

\* C5 amended: an empty retrieval returns the sentinel with confidence 0 and
\* calls neither the re-ranker nor the main LLM; the Run Record is stored
\* with the TTL of the query's intent when the cache is enabled and
\* max_entries >= 1, and nothing is stored otherwise.
C5_EmptyRetrievalAmended ==
    (pc = "done" /\ run.path = "no_documents") =>
        /\ EmptyRetrievalOutcome
        /\ IF cfg.cacheEnabled /\ cfg.max_entries >= 1
           THEN StoredWithIntentTtl
           ELSE ~EntryExists(cacheDir, run.cache_key)

\* C5's case: a planned run whose three sub-question retrievals all came back
\* empty, and whose record is now in the cache.
C5_Witness ==
    /\ pc = "done"
    /\ run.path = "no_documents"
    /\ run.strategy.use_planning
    /\ run.retrievals = 3
    /\ cfg.cacheEnabled
    /\ EntryExists(cacheDir, run.cache_key)

\* C6: in a run whose strategy has mode=none no retriever is invoked, the Run
\* Record has retrieved = 0 and reranked = 0, and the confidence is 50.
C6_ModeNoneInvokesNoRetriever ==
    run.strategy.mode = "none" =>
        /\ pc = "done"
        /\ run.retrievals = 0
        /\ run.agentCalls = 0
        /\ run.rerankCalls = 0
        /\ run.record.retrieved = 0
        /\ run.record.reranked = 0
        /\ run.confidence = 50
        /\ run.record.confidence = 50

\* C6's case: a mode=none run has returned without being served from the cache.
C6_Witness ==
    /\ pc = "done"
    /\ run.strategy.mode = "none"
    /\ run.path = "none"
    /\ run.record.confidence = 50

\* C7: in a run whose strategy has mode=none the answer is generated by a
\* call to the main LLM made without context; the run does not return the
\* no-relevant-information sentinel.
C7_ModeNoneAnswerIsGenerated ==
    (pc = "done" /\ run.path = "none") =>
        (run.llmCalls = 1 /\ run.answer # Sentinel)

\* C8: in every run in which the context handed to the synthesizer is empty
\* (mode=none, or a non-empty ranked list that compresses to the empty
\* string) the answer is the sentinel and the confidence of the Run Record
\* is 0.
C8_EmptyContextGivesZeroConfidence ==
    (pc = "done" /\ (run.path = "none"
                     \/ (run.path = "full" /\ run.context = <<>>))) =>
        (run.answer = Sentinel /\ run.record.confidence = 0)

\* min(100, 2 * n), written out
TwiceCapped(n) == IF 2 * n < 100 THEN 2 * n ELSE 100

\* C9 as stated: every Run Record has a confidence in [0, 100], and the Run
\* Record of every run not served from the cache has the confidence
\* min(100, 2 * reranked).
C9_ConfidenceFromRerankedCount ==
    \A i \in DOMAIN runLog :
        /\ runLog[i].confidence \in 0..100
        /\ ~runLog[i].cache_hit =>
               runLog[i].confidence = TwiceCapped(runLog[i].reranked)

\* C9 amended: every Run Record has a confidence in [0, 100]; the record of a
\* run that goes through retrieval and is not served from the cache has the
\* confidence min(100, 2 * reranked), and the record of a mode=none run has
\* the confidence 50 with reranked = 0.
C9_ConfidenceAmended ==
    /\ \A i \in DOMAIN runLog : runLog[i].confidence \in 0..100
    /\ \A k \in DOMAIN cacheDir : cacheDir[k].payload.confidence \in 0..100
    /\ (pc = "done" /\ run.path \in {"no_documents", "full"}) =>
           run.record.confidence = TwiceCapped(run.record.reranked)
    /\ (pc = "done" /\ run.path = "none") =>
           (run.record.confidence = 50 /\ run.record.reranked = 0)

\* C9's case: more than 50 documents were ranked and the cap applies.
C9_Witness ==
    /\ pc = "done"
    /\ run.path = "full"
    /\ run.record.reranked > 50
    /\ run.record.confidence = 100
    /\ runLog[Len(runLog)].confidence = 100

\* C10: every Run Record that is logged or cached has reranked <= retrieved,
\* for every query and strategy, with planning and when served from the cache.
C10_RerankedAtMostRetrieved ==
    /\ \A i \in DOMAIN runLog : runLog[i].reranked <= runLog[i].retrieved
    /\ \A k \in DOMAIN cacheDir :
           cacheDir[k].payload.reranked <= cacheDir[k].payload.retrieved

\* C10's case: a planned run was served from the cache the record of a run
\* that retrieved more documents than it ranked.
C10_Witness ==
    /\ pc = "done"
    /\ run.path = "cache_hit"
    /\ run.strategy.use_planning
    /\ run.record.reranked > 0
    /\ run.record.retrieved > run.record.reranked
    /\ runLog[Len(runLog)].cache_hit

\* C11: the context_chars of every Run Record (the length of the compressed
\* context string, with its [Doc i] headers, truncation suffixes and
\* separators) is at most the configured context_max_chars.
C11_ContextCharsWithinBudget ==
    /\ \A i \in DOMAIN runLog : runLog[i].context_chars <= cfg.context_max_chars
    /\ pc = "done" /\ run.path = "full" =>
           run.record.context_chars <= cfg.context_max_chars

\* No two documents of docs share a deduplication key (the hash of the first
\* 200 characters of the content)
DistinctDedupKeys(docs) ==
    Cardinality({docs[i].pfx : i \in DOMAIN docs}) = Len(docs)

\* C12: no two documents handed to the re-ranker, and none in the final
\* ranked list, share a deduplication key, also when planning is enabled and
\* the results of the sub-question retrievals are unioned.
C12_RankedDocumentsHaveDistinctKeys ==
    pc = "done" /\ run.path \in {"full", "llm_error"} =>
        /\ DistinctDedupKeys(run.documents)
        /\ DistinctDedupKeys(run.reranked)

\* The per-agent results of the run's multi_agent_retrieval call
RunResults == [a \in LaunchedAgents(run.strategy) |-> Worlds[run.world][a]]

\* C13: for a fixed set of enabled retrievers and fixed per-retriever output
\* lists, the merged deduplicated list of multi_agent_retrieval (surviving
\* instances, their fields and their order) is the same under every
\* completion order of the concurrent workers.
C13_MergeIndependentOfCompletionOrder ==
    (pc \in {"retrieving", "ranking"} /\ run.retrievals = 1) =>
        \A order \in Orders(Contributing(run.strategy, Worlds[run.world])) :
            multi_agent_retrieval(run.strategy, RunResults, order) = run.documents

\* Every document of docs has its deduplication key in merged
AllMerged(docs, merged) ==
    \A i \in DOMAIN docs : \E j \in DOMAIN merged : merged[j].pfx = docs[i].pfx

\* C14: when any subset of the enabled retriever workers raises, each failed
\* retriever contributes nothing, every document returned by each
\* non-failing retriever is still merged, and the query goes on to its end
\* (it logs its Run Record with the merged count) instead of failing.
C14_RetrieverFailuresAreAbsorbed ==
    (pc \in {"ranking", "done"} /\ run.retrievals > 0) =>
        /\ \A a \in LaunchedAgents(run.strategy) :
               ~RunResults[a].fail => AllMerged(RunResults[a].docs, run.documents)
        /\ \A j \in DOMAIN run.documents :
               \E a \in LaunchedAgents(run.strategy) :
                   /\ ~RunResults[a].fail
                   /\ \E i \in DOMAIN RunResults[a].docs :
                          RunResults[a].docs[i] = run.documents[j]
        /\ (pc = "done" /\ run.path \in {"no_documents", "full"}) =>
               /\ Len(runLog) = run.logAtStart + 1
               /\ run.record.retrieved = Len(run.documents)

\* C14's case: a run in which two launched workers raised ended on the full
\* path with the documents of the workers that did not raise.
C14_Witness ==
    /\ pc = "done"
    /\ run.path = "full"
    /\ \E a \in LaunchedAgents(run.strategy) : RunResults[a].fail
    /\ \E a \in LaunchedAgents(run.strategy) :
           ~RunResults[a].fail /\ RunResults[a].docs # <<>>
    /\ run.record.retrieved > 0

\* The run's call of claude.messages.create in generate_answer raised
LlmCallFailed == pc = "done" /\ run.path = "llm_error"

\* C15: when the main LLM call of the synthesizer fails, query() still
\* terminates normally: the answer is the error sentinel, the confidence is
\* 0, and a Run Record is logged.
C15_LlmFailureGivesErrorSentinel ==
    LlmCallFailed =>
        /\ Len(runLog) = run.logAtStart + 1
        /\ run.answer = "Error generating answer"
        /\ run.confidence = 0
        /\ run.record # NoRecord

\* C16 (over SpecAnalyze): when a sub-extractor task of process_query fails,
\* the analyzed query carries the default for that field ("general" for
\* intent, not-present for temporal), no field of it is null, and the
\* strategy decision goes on with that default.
C16_FailedSubExtractorGivesDefault ==
    lastOp.op = "process_query" =>
        /\ lastOp.processed_query.intent # NoneIntent
        /\ lastOp.processed_query.temporal # NoneTemporal
        /\ "intent" \in lastOp.failed =>
               lastOp.processed_query.intent = "general"
        /\ "temporal" \in lastOp.failed =>
               ~lastOp.processed_query.temporal.has_temporal
        /\ ~lastOp.raised

\* C17 (over SpecCacheIO): a cache I/O failure during get, set or prune (a
\* malformed entry, a failed write, an entry file that disappears between
\* listing and stat) is a miss or a no-op and never makes query() fail.
C17_CacheFailuresNeverFailQuery ==
    lastOp.op \in {"get", "set"} =>
        /\ ~lastOp.raised
        /\ (lastOp.op = "get" /\ lastOp.bad) => ~lastOp.hit

\* C18 (over SpecObserverIO): a failure inside the Monitor (appending the
\* run log or rewriting the metrics file) or inside the Tracer (writing the
\* trace file) never makes query() fail: the answer and the confidence
\* computed for the run are still returned.
C18_ObserverFailuresNeverFailQuery ==
    pc = "done" => run.path \in {"cache_hit", "none", "no_documents", "full"}

\* The log_run call of every worker thread of the batch has returned
BatchLogged == \A t \in BatchThreads : run[t].logged

\* C19 (over SpecBatch): after the log_run calls of N concurrent pipeline
\* runs, under every interleaving, the metrics file has total_runs = N and
\* cache_hits equal to the number of those runs that were cache hits: no
\* update is lost.  The runs that filled the cache before the batch are
\* in the file when the batch starts and are counted apart.
C19_NoMetricsUpdateLost ==
    BatchLogged =>
        /\ _load_metrics(metrics).total_runs
               = Cardinality(BatchEarlier) + NThreads
        /\ _load_metrics(metrics).cache_hits
               = Cardinality({t \in BatchThreads : run[t].hit})

\* C20 (over SpecBatch): the current trace is private to each running query:
\* a persisted trace holds only spans opened by its own query, a query in
\* progress (between its start_trace and its end_trace) still owns a current
\* trace, and each query that reaches end_trace persists exactly one trace.
C20_TraceIsPrivateToItsQuery ==
    /\ \A i \in DOMAIN traceFile :
           \A j \in DOMAIN traceFile[i].spans :
               traceFile[i].spans[j]
                   = BatchSpan(traceFile[i].n, traceFile[i].spans[j].name)
    /\ \A t \in BatchThreads :
           (cfg.tracing /\ pc[t] = "done" /\ ~run[t].hit) =>
               Cardinality({i \in DOMAIN traceFile : traceFile[i].n = t}) = 1

\* C21 (over SpecCacheRace): cache entries are written atomically: a get(K)
\* concurrent with a set(K, p) observes the previous complete entry, a miss
\* or the new complete entry, never a partially written file, and it never
\* deletes the entry the concurrent set is writing (the entry is there when
\* the write is over).
C21_SetIsAtomicForConcurrentGet ==
    /\ run.hit => run.got \in Payloads \cup {"p0"}
    /\ ~run.unlinkedOpen
    /\ pc.w = "written" =>
           /\ EntryExists(cacheDir, RaceKey)
           /\ cacheDir[RaceKey].kind = "record"
           /\ cacheDir[RaceKey].payload = run.payload

\* C22 (over SpecRepeat): when query() runs a second time on the same input
\* within the cache ttl of the first run, the second Run Record equals the
\* first (the record the first run stored) in every field except
\* elapsed_sec and from_cache: answer, confidence, retrieved, reranked,
\* context_chars, timestamp and cache_ttl are the same.
C22_RepeatedRunRecordIsIdentical ==
    (pc = "done" /\ run.path = "cache_hit") =>
        LET first == cacheDir[run.cache_key].payload
        IN  /\ run.record.from_cache
            /\ [run.record EXCEPT !.elapsed_sec = first.elapsed_sec,
                                  !.from_cache = first.from_cache] = first

\* C23 (over SpecKey): the query normalization used for the cache key is
\* idempotent: normalize(normalize(q)) = normalize(q) for every query q.
C23_NormalizationIsIdempotent ==
    lastOp.op = "keys" => lastOp.twice = lastOp.once

\* C24 (over SpecKey): any two queries whose normalized text is identical
\* obtain the same cache key under the same project and configuration, even
\* when their raw texts differ in case, punctuation, spacing or length.
C24_SameNormalizationSameKey ==
    lastOp.op = "keys" => lastOp.key1 = lastOp.key2

\* C25 (over SpecDisabled): with the cache disabled, over every sequence of
\* queries, no query is served from the cache (also a repeated query, also
\* when entry files already exist) and no cache entry is written: in a
\* process started with RAG_DISABLE_CACHE=1 the cache directory and its
\* modification times stay what the process found, no run is a cache hit,
\* none of its log lines has cache_hit and no run stores a record.
C25_DisabledCacheNeverServesNorStores ==
    lastOp.disable_cache =>
        /\ cacheDir = lastOp.dir
        /\ fsTime = lastOp.mtime
        /\ \A i \in DOMAIN runLog : i > lastOp.logged => ~runLog[i].cache_hit
        /\ run.path # "cache_hit"
        /\ ~run.cached
        /\ run.stored = NoRecord

\* C25's case: a process with the cache disabled ran the same query twice to
\* the end of the full path while the directory held the entry an earlier
\* process with the cache enabled stored for that query, still within its
\* ttl, next to the entry of another query.
C25_Witness ==
    /\ lastOp.disable_cache
    /\ pc = "done"
    /\ run.n = 2
    /\ run.path = "full"
    /\ Len(runLog) = lastOp.logged + 2
    /\ runLog[Len(runLog)].query = runLog[Len(runLog) - 1].query
    /\ Cardinality(DOMAIN cacheDir) = 2
    /\ \E k \in DOMAIN cacheDir :
           /\ cacheDir[k].payload.query = run.query
           /\ clock - cacheDir[k].ts <= cacheDir[k].ttl


(***************************************************************************)
(* MCPMemoryDirect.search (mcp_direct.py).  The subprocess either times    *)
(* out, cannot be started, or exits with a return code and a standard      *)
(* output.  The output is described by what search() looks at: whether it  *)
(* holds the result mark, whether a brace follows the mark, how the text   *)
(* from the brace on decodes, and the entities it lists.  An observation   *)
(* is described by the number of its characters without surrounding        *)
(* blanks and the number of surrounding blanks.                            *)
(***************************************************************************)
MaxLimit == 2          \* SpecMcp: largest limit passed to search
MaxEntities == 2       \* SpecMcp: entities in the client's output
MaxObservations == 2   \* SpecMcp: observations per entity
ObsMinLen == 100       \* an observation must be longer than this

Observations == {[chars |-> 100, blanks |-> 0], [chars |-> 101, blanks |-> 0],
                 [chars |-> 95, blanks |-> 10]}
SeqsUpTo(S, n) == UNION {[1..k -> S] : k \in 0..n}
EntityLists == SeqsUpTo(SeqsUpTo(Observations, MaxObservations), MaxEntities)
JsonKinds == {"object", "undecodable", "entities_not_a_list", "no_entities"}
\* outputs without the mark or without a brace, outputs whose JSON text has
\* no usable entities, and outputs listing entities
Stdouts ==
    [mark : BOOLEAN, brace : BOOLEAN, json : {"object"}, entities : {<<>>}]
    \cup [mark : {TRUE}, brace : {TRUE},
          json : {"entities_not_a_list", "no_entities"}, entities : {<<>>}]
    \cup [mark : {TRUE}, brace : {TRUE}, json : {"object", "undecodable"},
          entities : EntityLists]
SubprocessOutcomes ==
    {[kind |-> "TimeoutExpired"], [kind |-> "OSError"]}
    \cup [kind : {"completed"}, returncode : {0}, stdout : Stdouts]
    \cup [kind : {"completed"}, returncode : {1},
          stdout : {o \in Stdouts : o.json = "object"}]

RECURSIVE EntityDocs(_)
\* the documents of the observations whose stripped text is long enough
EntityDocs(observations) ==
    IF observations = <<>> THEN <<>>
    ELSE LET obs == Head(observations)
         IN  (IF obs.chars > ObsMinLen
                 THEN <<[content |-> obs, source |-> "entity"]>>
                 ELSE <<>>) \o EntityDocs(Tail(observations))

RECURSIVE AllEntityDocs(_)
AllEntityDocs(entities) ==
    IF entities = <<>> THEN <<>>
    ELSE EntityDocs(Head(entities)) \o AllEntityDocs(Tail(entities))

\* the decoded-JSON branch without the final docs[:limit]
search_json_unsliced(entities, limit) == AllEntityDocs(Take(entities, limit))

\* the decoded-JSON branch: entities[:limit], their long observations,
\* docs[:limit]
search_json(entities, limit) == Take(AllEntityDocs(Take(entities, limit)), limit)

RECURSIVE FirstObservations(_)
\* what the pattern finds: the first observation of every observations array
FirstObservations(entities) ==
    IF entities = <<>> THEN <<>>
    ELSE (IF Head(entities) = <<>> THEN <<>> ELSE <<Head(entities)[1]>>)
             \o FirstObservations(Tail(entities))

RECURSIVE RegexDocs(_)
RegexDocs(matches) ==
    IF matches = <<>> THEN <<>>
    ELSE (IF Head(matches).chars + Head(matches).blanks > ObsMinLen
             THEN <<[content |-> Head(matches), source |-> "regex_extraction"]>>
             ELSE <<>>) \o RegexDocs(Tail(matches))

_extract_via_regex(entities, limit) ==
    RegexDocs(Take(FirstObservations(entities), limit))

\* the body of the try block: the exception it raises, if any, and the value
\* it returns
search_try(outcome, limit) ==
    IF outcome.kind # "completed"
        THEN [exc |-> outcome.kind, docs |-> <<>>]
    ELSE IF outcome.returncode # 0
        THEN [exc |-> "none", docs |-> <<>>]
    ELSE IF ~(outcome.stdout.mark /\ outcome.stdout.brace)
        THEN [exc |-> "none", docs |-> <<>>]
    ELSE CASE outcome.stdout.json = "object" ->
                  [exc |-> "none",
                   docs |-> search_json(outcome.stdout.entities, limit)]
           [] outcome.stdout.json = "no_entities" ->
                  [exc |-> "none", docs |-> <<>>]
           [] outcome.stdout.json = "entities_not_a_list" ->
                  [exc |-> "TypeError", docs |-> <<>>]
           [] OTHER ->
                  [exc |-> "none",
                   docs |-> _extract_via_regex(outcome.stdout.entities, limit)]

\* the exceptions the two handlers of search() catch
CaughtBySearch == {"TimeoutExpired", "OSError", "TypeError"}

search(outcome, limit) ==
    LET body == search_try(outcome, limit)
    IN  IF body.exc = "none" THEN [raised |-> FALSE, docs |-> body.docs]
        ELSE IF body.exc \in CaughtBySearch
            THEN [raised |-> FALSE, docs |-> <<>>]
        ELSE [raised |-> TRUE, docs |-> <<>>]

InitMcp ==
    /\ cfg = Config(TRUE, DefaultMaxEntries, DefaultTtlSeconds,
                    DefaultContextChars, DefaultTopK, TRUE)
    /\ clock = 0
    /\ fsTime = 0
    /\ cacheDir = EmptyDir
    /\ \E outcome \in SubprocessOutcomes, limit \in 0..MaxLimit :
           lastOp = [op |-> "input", outcome |-> outcome, limit |-> limit]
    /\ prevOp = NoOp
    /\ pc = "idle"
    /\ run = IdleRun
    /\ runLog = <<>>
    /\ metrics = ZeroMetrics
    /\ currentTrace = NoTrace
    /\ traceFile = <<>>

McpSearch ==
    /\ lastOp.op = "input"
    /\ lastOp' = [op |-> "search", outcome |-> lastOp.outcome,
                  limit |-> lastOp.limit,
                  result |-> search(lastOp.outcome, lastOp.limit)]
    /\ UNCHANGED <<cfg, clock, fsTime, cacheDir, prevOp, pc, run, runLog,
                   metrics, currentTrace, traceFile>>

NextMcp == McpSearch

SpecMcp == InitMcp /\ [][NextMcp]_vars


(***************************************************************************)
(* rerank_documents on its own: short lists of documents that differ in    *)
(* score, vector_score and cross-encoder score, among them documents with  *)
(* equal final_score and different first-stage key, and the long list that *)
(* exceeds the candidate limit.                                            *)
(***************************************************************************)
MaxDocs == 3           \* SpecRerank: documents in a short input list
MaxTopK == 4           \* SpecRerank: top_k values 0..MaxTopK on short lists

\* score, vector_score and cross-encoder score of the kinds of document.  The
\* first three have the same float final_score (5.0); the last two have the
\* same exact value (0.3) and float results one double apart.
RerankKinds == {<<0, 0, 50>>, <<9, 0, 50>>, <<0, 5, 49>>, <<0, 0, 20>>,
                <<0, 0, 3>>, <<0, 10, 1>>}

\* the list whose i-th document is of kind kinds[i]
RerankDocs(kinds) ==
    [i \in 1..Len(kinds) |->
        Doc(i, i, 50, kinds[i][1], kinds[i][2], kinds[i][3], FALSE)]

RerankInputs ==
    [documents : {RerankDocs(k) : k \in SeqsUpTo(RerankKinds, MaxDocs)},
     top_k : 0..MaxTopK]
    \cup [documents : {BulkDocs}, top_k : {20, 60}]

InitRerank ==
    /\ cfg = Config(TRUE, DefaultMaxEntries, DefaultTtlSeconds,
                    DefaultContextChars, DefaultTopK, TRUE)
    /\ clock = 0
    /\ fsTime = 0
    /\ cacheDir = EmptyDir
    /\ \E input \in RerankInputs :
           lastOp = [op |-> "input", documents |-> input.documents,
                     top_k |-> input.top_k]
    /\ prevOp = NoOp
    /\ pc = "idle"
    /\ run = IdleRun
    /\ runLog = <<>>
    /\ metrics = ZeroMetrics
    /\ currentTrace = NoTrace
    /\ traceFile = <<>>

RerankCall ==
    /\ lastOp.op = "input"
    /\ lastOp' = [op |-> "rerank", documents |-> lastOp.documents,
                  top_k |-> lastOp.top_k,
                  result |-> rerank_documents(lastOp.documents, lastOp.top_k)]
    /\ UNCHANGED <<cfg, clock, fsTime, cacheDir, prevOp, pc, run, runLog,
                   metrics, currentTrace, traceFile>>

NextRerank == RerankCall

SpecRerank == InitRerank /\ [][NextRerank]_vars


(***************************************************************************)
(* The analyzer and the planner on their own: process_query and            *)
(* _decide_retrieval_strategy applied to every query made of a few phrases *)
(* that hit the keyword tables (generic terms, project tokens, intent      *)
(* words, objective markers, temporal keywords) or none of them.           *)
(***************************************************************************)
MaxWords == 2          \* SpecPlan: phrases in a query

PlanWords ==
    { <<"o", " ", "q", "u", "e", " ", "é">>,
      <<"d", "e", "f", "i", "n", "a">>,
      <<"c", "a", "c", "h", "e">>,
      <<"r", "a", "g">>,
      <<"c", "o", "m", "o">>,
      <<"b", "u", "g">>,
      <<"s", "t", "a", "t", "u", "s">>,
      <<"s", "e", "t", "u", "p">>,
      <<"o", "n", "d", "e">>,
      <<"o", "n", "t", "e", "m">>,
      <<"a", "n", "t", "e", "o", "n", "t", "e", "m">>,
      <<"h", "o", "j", "e">> }

RECURSIVE JoinWords(_)
\* " ".join(words)
JoinWords(words) ==
    IF words = <<>> THEN <<>>
    ELSE IF Len(words) = 1 THEN words[1]
    ELSE words[1] \o <<" ">> \o JoinWords(Tail(words))

PlanQueries == {JoinWords(ws) : ws \in SeqsUpTo(PlanWords, MaxWords)}

InitPlan ==
    /\ cfg = Config(TRUE, DefaultMaxEntries, DefaultTtlSeconds,
                    DefaultContextChars, DefaultTopK, TRUE)
    /\ clock = 0
    /\ fsTime = 0
    /\ cacheDir = EmptyDir
    /\ \E q \in PlanQueries : lastOp = [op |-> "input", query |-> q]
    /\ prevOp = NoOp
    /\ pc = "idle"
    /\ run = IdleRun
    /\ runLog = <<>>
    /\ metrics = ZeroMetrics
    /\ currentTrace = NoTrace
    /\ traceFile = <<>>

\* query() up to the strategy decision, the fast LLM returning nothing
PlanCall ==
    /\ lastOp.op = "input"
    /\ LET processed_query == process_query(lastOp.query, <<>>, <<>>)
       IN  lastOp' = [op |-> "plan", query |-> lastOp.query,
                      processed_query |-> processed_query,
                      strategy |-> _decide_retrieval_strategy(
                                       processed_query, cfg.default_top_k)]
    /\ UNCHANGED <<cfg, clock, fsTime, cacheDir, prevOp, pc, run, runLog,
                   metrics, currentTrace, traceFile>>

NextPlan == PlanCall

SpecPlan == InitPlan /\ [][NextPlan]_vars


(***************************************************************************)
(* compress_context on its own: ranked lists whose last documents are      *)
(* short, medium or long and of low or high final_score, alone or after    *)
(* ten short documents (so that ranks of 10 and more occur), under budgets *)
(* around the 500-character threshold.                                     *)
(***************************************************************************)
MaxTailDocs == 2       \* SpecCompress: documents after the leading ones

CompressLens == {100, 600, 2000}
CompressScores == {0, 2500}
CompressBudgets == {500, 600, 1101, 1700, 120000}
LeadingCounts == {0, 10}

\* a ranked document of the given length and final_score
RankedDoc(len, final_score) ==
    [Doc(0, 0, len, 0, 0, 0, FALSE) EXCEPT !.final_score = final_score]

CompressTails ==
    SeqsUpTo({RankedDoc(l, f) : l \in CompressLens, f \in CompressScores},
             MaxTailDocs)

CompressInputs ==
    {[documents |-> [i \in 1..n |-> RankedDoc(10, 0)] \o tail,
      max_chars |-> b] :
        n \in LeadingCounts, tail \in CompressTails, b \in CompressBudgets}

InitCompress ==
    /\ cfg = Config(TRUE, DefaultMaxEntries, DefaultTtlSeconds,
                    DefaultContextChars, DefaultTopK, TRUE)
    /\ clock = 0
    /\ fsTime = 0
    /\ cacheDir = EmptyDir
    /\ \E input \in CompressInputs :
           lastOp = [op |-> "input", documents |-> input.documents,
                     max_chars |-> input.max_chars]
    /\ prevOp = NoOp
    /\ pc = "idle"
    /\ run = IdleRun
    /\ runLog = <<>>
    /\ metrics = ZeroMetrics
    /\ currentTrace = NoTrace
    /\ traceFile = <<>>

CompressCall ==
    /\ lastOp.op = "input"
    /\ lastOp' = [op |-> "compress", documents |-> lastOp.documents,
                  max_chars |-> lastOp.max_chars,
                  parts |-> compress_context(lastOp.documents, lastOp.max_chars)]
    /\ UNCHANGED <<cfg, clock, fsTime, cacheDir, prevOp, pc, run, runLog,
                   metrics, currentTrace, traceFile>>

NextCompress == CompressCall

SpecCompress == InitCompress /\ [][NextCompress]_vars


(***************************************************************************)
(* Query planning: _plan_query and the sub-question loop of query().  The  *)
(* fast LLM either raises or answers a text of lines; a line is blank or   *)
(* holds a sub-question.  The original query is written "query".           *)
(***************************************************************************)
MaxPlanLines == 4      \* SpecPlanning: lines in the planner's answer

PlanLineKinds == {"", "s1", "s2"}
PlanAnswers == SeqsUpTo(PlanLineKinds, MaxPlanLines)

\* [s.strip() for s in text.strip().split('\n') if s.strip()]
NonBlankLines(lines) == SelectSeq(lines, LAMBDA l : l # "")

\* _plan_query without the subs[:3] slice
_plan_query_unsliced(planOk, lines) ==
    IF ~planOk THEN <<"query">>
    ELSE IF NonBlankLines(lines) = <<>> THEN <<"query">>
    ELSE NonBlankLines(lines)

\* _plan_query: subs[:3] if subs else [query]; [query] when the call raises
_plan_query(planOk, lines) ==
    IF ~planOk THEN <<"query">>
    ELSE IF NonBlankLines(lines) = <<>> THEN <<"query">>
    ELSE Take(NonBlankLines(lines), 3)

InitPlanning ==
    /\ cfg = Config(TRUE, DefaultMaxEntries, DefaultTtlSeconds,
                    DefaultContextChars, DefaultTopK, TRUE)
    /\ clock = 0
    /\ fsTime = 0
    /\ cacheDir = EmptyDir
    /\ \E planOk \in BOOLEAN, lines \in PlanAnswers :
           /\ planOk \/ lines = <<>>
           /\ lastOp = [op |-> "input", planOk |-> planOk, lines |-> lines]
    /\ prevOp = NoOp
    /\ pc = "planning"
    /\ run = IdleRun
    /\ runLog = <<>>
    /\ metrics = ZeroMetrics
    /\ currentTrace = NoTrace
    /\ traceFile = <<>>

\* subqs = self._plan_query(user_query)
PlanQueryCall ==
    /\ pc = "planning"
    /\ lastOp' = [op |-> "planned", planOk |-> lastOp.planOk,
                  lines |-> lastOp.lines,
                  subqs |-> _plan_query(lastOp.planOk, lastOp.lines),
                  analyzed |-> <<>>, retrieved |-> <<>>]
    /\ pc' = "analyze"
    /\ UNCHANGED <<cfg, clock, fsTime, cacheDir, prevOp, run, runLog,
                   metrics, currentTrace, traceFile>>

\* pq = self.process_query(sq) for the next sub-question
SubQuestionAnalyze ==
    /\ pc = "analyze"
    /\ Len(lastOp.analyzed) < Len(lastOp.subqs)
    /\ lastOp' = [lastOp EXCEPT !.analyzed =
                      Append(@, lastOp.subqs[Len(lastOp.analyzed) + 1])]
    /\ pc' = "retrieve"
    /\ UNCHANGED <<cfg, clock, fsTime, cacheDir, prevOp, run, runLog,
                   metrics, currentTrace, traceFile>>

\* docs_sq = self.multi_agent_retrieval(pq, strategy)
SubQuestionRetrieve ==
    /\ pc = "retrieve"
    /\ lastOp' = [lastOp EXCEPT !.retrieved =
                      Append(@, lastOp.analyzed[Len(lastOp.analyzed)])]
    /\ pc' = "analyze"
    /\ UNCHANGED <<cfg, clock, fsTime, cacheDir, prevOp, run, runLog,
                   metrics, currentTrace, traceFile>>

NextPlanning == PlanQueryCall \/ SubQuestionAnalyze \/ SubQuestionRetrieve

SpecPlanning == InitPlanning /\ [][NextPlanning]_vars


(***************************************************************************)
(* The vector agent: one vector_store.search per query variant, with the   *)
(* early stop on the number of high-quality documents accumulated.  A      *)
(* search is described by the number of documents with score > 0.8 among   *)
(* its results.                                                            *)
(***************************************************************************)
MaxVariants == 2       \* SpecVector: concepts, and expansions, of a query

quality_budget == 30
HighQualityCounts == {0, 10, 15}

VariantLists(name) == {[i \in 1..n |-> <<name, i>>] : n \in 0..MaxVariants}

\* all_queries = [original] + concepts + expansions
all_queries(processed_query) ==
    <<processed_query.original>> \o processed_query.concepts
        \o processed_query.expansions

\* a stop test that never stops
BudgetNeverMet(high_quality) == FALSE

\* if high_quality >= quality_budget: break
BudgetMet(high_quality) == high_quality >= quality_budget

InitVector ==
    /\ cfg = Config(TRUE, DefaultMaxEntries, DefaultTtlSeconds,
                    DefaultContextChars, DefaultTopK, TRUE)
    /\ clock = 0
    /\ fsTime = 0
    /\ cacheDir = EmptyDir
    /\ \E concepts \in VariantLists("concept"),
          expansions \in VariantLists("expansion") :
           lastOp = [op |-> "vector",
                     processed_query |-> [original |-> <<"original", 0>>,
                                          concepts |-> concepts,
                                          expansions |-> expansions],
                     searched |-> <<>>, high_quality |-> <<>>]
    /\ prevOp = NoOp
    /\ pc = "searching"
    /\ run = IdleRun
    /\ runLog = <<>>
    /\ metrics = ZeroMetrics
    /\ currentTrace = NoTrace
    /\ traceFile = <<>>

\* one iteration of the loop: the search of the next variant returns results
\* of which found have a score above the threshold
VectorSearch(found) ==
    /\ pc = "searching"
    /\ LET queries == all_queries(lastOp.processed_query)
           k == Len(lastOp.searched) + 1
           before == IF k = 1 THEN 0 ELSE lastOp.high_quality[k - 1]
           high_quality == before + found
       IN  /\ lastOp' = [lastOp EXCEPT
                            !.searched = Append(@, queries[k]),
                            !.high_quality = Append(@, high_quality)]
           /\ pc' = IF BudgetMet(high_quality) \/ k = Len(queries)
                    THEN "returned" ELSE "searching"
    /\ UNCHANGED <<cfg, clock, fsTime, cacheDir, prevOp, run, runLog,
                   metrics, currentTrace, traceFile>>

NextVector == \E found \in HighQualityCounts : VectorSearch(found)

SpecVector == InitVector /\ [][NextVector]_vars


(***************************************************************************)
(* The pipeline under TTL policies: the defaults, and                      *)
(* RAG_CACHE_TTL_STATUS=-1 RAG_CACHE_TTL_CODE=0 RAG_CACHE_TTL=300, run on  *)
(* queries of every intent, through the none-retrieval, no-document and    *)
(* full paths (QConfig, TtlQueries and TtlConfigs).                        *)
(***************************************************************************)
InitTtl ==
    /\ cfg \in TtlConfigs
    /\ clock = 0
    /\ fsTime = 0
    /\ cacheDir = EmptyDir
    /\ lastOp = NoOp
    /\ prevOp = NoOp
    /\ pc = "idle"
    /\ run = IdleRun
    /\ runLog = <<>>
    /\ metrics = ZeroMetrics
    /\ currentTrace = NoTrace
    /\ traceFile = <<>>

NextTtl ==
    \/ \E q \in TtlQueries : StartQuery(q, <<>>, <<>>, TRUE, 0)
    \/ \E name \in RepeatWorlds :
           \E order \in Orders(Contributing(run.strategy, Worlds[name])) :
               Retrieve(name, order)
    \/ \E llm_text \in LlmAnswers : Finish(TRUE, llm_text)
    \/ \E d \in RepeatTicks : Advance(d)

SpecTtl == InitTtl /\ [][NextTtl]_vars


(***************************************************************************)
(* RAGMonitor on its own: sequential log_run calls from empty files.  The  *)
(* metrics file is missing, empty (zero bytes) or holds the metrics last   *)
(* written.                                                                *)
(***************************************************************************)
MaxLogRuns == 4        \* SpecMonitor: log_run calls per behaviour

\* confidence values of the logged runs
Confidences == {2, 100}

MonitorRunData ==
    {RunRecord(QStatus, "status", 1, 1, 10, confidence, 0, from_cache,
               "answer1", 0, 180) :
        confidence \in Confidences, from_cache \in BOOLEAN}

InitMonitor ==
    /\ cfg = Config(TRUE, DefaultMaxEntries, DefaultTtlSeconds,
                    DefaultContextChars, DefaultTopK, TRUE)
    /\ clock = 0
    /\ fsTime = 0
    /\ cacheDir = EmptyDir
    /\ lastOp = NoOp
    /\ prevOp = NoOp
    /\ pc = "idle"
    /\ run = IdleRun
    /\ runLog = <<>>
    /\ metrics \in EmptyMetricsFiles
    /\ currentTrace = NoTrace
    /\ traceFile = <<>>

\* RAGMonitor.log_run: the append to rag_runs.jsonl, then _update_metrics
\* (load, add, write)
LogRun(run_data) ==
    /\ Len(runLog) < MaxLogRuns
    /\ LET entry == LogEntry(run_data)
       IN  /\ runLog' = Append(runLog, entry)
           /\ metrics' = [exists |-> TRUE, parses |-> TRUE,
                          data |-> _update_metrics(_load_metrics(metrics), entry)]
    /\ UNCHANGED <<cfg, clock, fsTime, cacheDir, lastOp, prevOp, pc, run,
                   currentTrace, traceFile>>

NextMonitor == \E run_data \in MonitorRunData : LogRun(run_data)

SpecMonitor == InitMonitor /\ [][NextMonitor]_vars

\* The memory worker of the run raised while another launched worker
\* returned documents
MemoryFailedOthersSucceeded ==
    /\ run.retrievals > 0
    /\ "memory" \in LaunchedAgents(run.strategy)
    /\ RunResults["memory"].fail
    /\ \E a \in LaunchedAgents(run.strategy) :
           ~RunResults[a].fail /\ RunResults[a].docs # <<>>

\* C26: when the memory retriever fails during a run while other retrievers
\* succeed, the run completes with status ok and its persisted trace holds a
\* span for the memory agent with status = error.
C26_MemoryFailureGivesErrorSpan ==
    (pc = "done" /\ run.path = "full" /\ cfg.tracing
        /\ MemoryFailedOthersSucceeded) =>
        /\ Len(traceFile) = run.tracesAtStart + 1
        /\ \E j \in DOMAIN traceFile[Len(traceFile)].spans :
               traceFile[Len(traceFile)].spans[j].status = "error"

\* C27: the configured top-k is the number of documents kept after
\* re-ranking: for every query and intent, the reranked count of a run is at
\* most the configured top-k value.
C27_RerankedCountAtMostConfiguredTopK ==
    (pc = "done" /\ run.path = "full") =>
        run.record.reranked <= cfg.default_top_k

\* the call failed: the subprocess timed out, could not be started, exited
\* with a non-zero status, or its output had an unexpected shape
McpFailure(outcome) ==
    \/ outcome.kind \in {"TimeoutExpired", "OSError"}
    \/ /\ outcome.kind = "completed"
       /\ \/ outcome.returncode # 0
          \/ /\ outcome.stdout.mark /\ outcome.stdout.brace
             /\ outcome.stdout.json = "entities_not_a_list"

\* C28: MCPMemoryDirect.search never propagates an exception: on subprocess
\* timeout, on non-zero exit status and on any other failure it returns the
\* empty list, and on success it returns at most limit documents.
C28_SearchNeverRaisesAndRespectsLimit ==
    lastOp.op = "search" =>
        /\ ~lastOp.result.raised
        /\ McpFailure(lastOp.outcome) => lastOp.result.docs = <<>>
        /\ Len(lastOp.result.docs) <= lastOp.limit

\* a successful search whose output held more long observations than the
\* limit, and a failed one
C28_Witness ==
    /\ lastOp.op = "search"
    /\ lastOp.outcome.kind = "completed"
    /\ lastOp.outcome.returncode = 0
    /\ lastOp.outcome.stdout.json = "object"
    /\ Len(AllEntityDocs(lastOp.outcome.stdout.entities)) > lastOp.limit
    /\ Len(lastOp.result.docs) = lastOp.limit
    /\ lastOp.limit > 0

\* the index a returned document had in the input list
InputIndex(documents, doc) ==
    CHOOSE k \in DOMAIN documents : documents[k].id = doc.id

\* C29: rerank_documents returns its documents ordered by final_score
\* descending, and any two returned documents with equal final_score appear
\* in the order they had in the input list, whatever their score and
\* vector_score values are.
C29_TiesKeepInputOrder ==
    lastOp.op = "rerank" =>
        \A i, j \in DOMAIN lastOp.result :
            i < j =>
                /\ FinalKey(lastOp.result[i]) >= FinalKey(lastOp.result[j])
                /\ FinalKey(lastOp.result[i]) = FinalKey(lastOp.result[j])
                       => InputIndex(lastOp.documents, lastOp.result[i])
                              < InputIndex(lastOp.documents, lastOp.result[j])

\* C30: rerank_documents with n input documents and a given top_k returns
\* exactly min(n, top_k) documents, each one of the input documents and none
\* twice; when n < top_k every input document is returned.
C30_RerankReturnsMinOfInputAndTopK ==
    lastOp.op = "rerank" =>
        LET ids(docs) == {docs[i].id : i \in DOMAIN docs}
        IN  /\ Len(lastOp.result) = Min(Len(lastOp.documents), lastOp.top_k)
            /\ ids(lastOp.result) \subseteq ids(lastOp.documents)
            /\ Cardinality(ids(lastOp.result)) = Len(lastOp.result)
            /\ Len(lastOp.documents) < lastOp.top_k
                   => ids(lastOp.result) = ids(lastOp.documents)

\* more documents than top_k were given, top_k of them came back and the
\* first one returned is not the first one given
C30_Witness ==
    /\ lastOp.op = "rerank"
    /\ lastOp.top_k > 1
    /\ Len(lastOp.documents) > lastOp.top_k
    /\ Len(lastOp.result) = lastOp.top_k
    /\ lastOp.result[1].id # lastOp.documents[1].id

\* C31: the planner selects mode = none for every generic definitional query
\* ("what is X", "define X") that contains no project-specific token,
\* whatever intent the analyzer classified the query as.
C31_GenericDefinitionalQueryPlansModeNone ==
    (/\ lastOp.op = "plan"
     /\ ContainsAny(Lower(lastOp.query), GenericTerms)
     /\ ~ContainsAny(Lower(lastOp.query), ProjectTokens))
        => lastOp.strategy.mode = "none"

\* C32: for every analyzed query planned with mode = hybrid and without
\* objective-question markers, vector, memory and keywords are enabled, code
\* is enabled iff intent = code, graph iff intent is status, explain or
\* general, and recent iff the query has a temporal cue.
C32_HybridPlanEnablesBaseDefaults ==
    (/\ lastOp.op = "plan"
     /\ lastOp.strategy.mode = "hybrid"
     /\ ~ContainsAny(Lower(lastOp.query), ObjectiveMarkers))
        => /\ lastOp.strategy.use_vector
           /\ lastOp.strategy.use_memory
           /\ lastOp.strategy.use_keywords
           /\ lastOp.strategy.use_code
                  <=> (lastOp.processed_query.intent = "code")
           /\ lastOp.strategy.use_graph
                  <=> (lastOp.processed_query.intent
                           \in {"status", "explain", "general"})
           /\ lastOp.strategy.use_recent
                  <=> lastOp.processed_query.temporal.has_temporal

\* C36: a query containing the day-before keyword "anteontem" (and no
\* temporal keyword besides it and the "ontem" inside it) yields
\* has_temporal with days_back = 2, the window the table assigns to it.
C36_DayBeforeYesterdayGivesTwoDays ==
    (/\ lastOp.op = "plan"
     /\ Contains(Lower(lastOp.query), temporal_keywords[3].keyword)
     /\ \A i \in DOMAIN temporal_keywords :
            i \notin {2, 3} =>
                ~Contains(Lower(lastOp.query), temporal_keywords[i].keyword))
        => /\ lastOp.processed_query.temporal.has_temporal
           /\ lastOp.processed_query.temporal.days_back = 2

RECURSIVE SumChars(_)
\* the content characters of a list of parts
SumChars(parts) ==
    IF parts = <<>> THEN 0 ELSE Head(parts).chars + SumChars(Tail(parts))

\* the document at 0-based rank i is a priority document
IsPriority(documents, i) ==
    i < 10 \/ AboveHigh(documents[i + 1])

\* C33: in compress_context, when a priority document (rank < 10 or
\* final_score > 0.8) does not fit the remaining budget, a truncated version
\* is included if and only if at least 500 characters of budget remain, and
\* in either case no later document is included.
C33_TruncatedIffAtLeast500Remain ==
    lastOp.op = "compress" =>
        LET parts == lastOp.parts
            n == Len(parts)
        IN  /\ \A k \in 1..n :
                   parts[k].kind = "truncated" =>
                       /\ k = n
                       /\ lastOp.max_chars - SumChars(SubSeq(parts, 1, k - 1)) >= 500
            /\ (/\ n < Len(lastOp.documents)
                /\ (n = 0 \/ parts[n].kind # "truncated")
                /\ IsPriority(lastOp.documents, n))
                   => lastOp.max_chars - SumChars(parts) < 500

\* C39: the documents included by compress_context form a prefix of the
\* ranked list (after the first document left out or truncated no later one
\* is included), each is labelled with its 1-based rank, and the content
\* characters accounted for never exceed max_chars.
C39_CompressedDocumentsFormPrefix ==
    lastOp.op = "compress" =>
        /\ \A k \in 1..Len(lastOp.parts) :
               /\ lastOp.parts[k].i + 1 = k
               /\ lastOp.parts[k].kind = "truncated" => k = Len(lastOp.parts)
               /\ lastOp.parts[k].chars <= lastOp.documents[k].len
        /\ SumChars(lastOp.parts) <= lastOp.max_chars

\* a document was left out although a later document would have fitted
C39_Witness ==
    /\ lastOp.op = "compress"
    /\ Len(lastOp.parts) > 0
    /\ \E j \in (Len(lastOp.parts) + 2)..Len(lastOp.documents) :
           SumChars(lastOp.parts) + lastOp.documents[j].len <= lastOp.max_chars

\* C34: with use_planning set, between 1 and 3 sub-question retrievals run:
\* at most 3 whatever the planner LLM returns, exactly one retrieval of the
\* original query when the planner call fails or returns nothing; each
\* sub-question is analyzed once and retrieved once.
C34_PlanningRunsOneToThreeRetrievals ==
    lastOp.op = "planned" =>
        /\ Len(lastOp.subqs) \in 1..3
        /\ Len(lastOp.subqs) =
               PlannedCount(lastOp.planOk, Len(NonBlankLines(lastOp.lines)))
        /\ (~lastOp.planOk \/ NonBlankLines(lastOp.lines) = <<>>)
               => lastOp.subqs = <<"query">>
        /\ Len(lastOp.retrieved) <= Len(lastOp.analyzed)
        /\ Len(lastOp.analyzed) <= Len(lastOp.subqs)
        /\ lastOp.analyzed = SubSeq(lastOp.subqs, 1, Len(lastOp.analyzed))
        /\ lastOp.retrieved = SubSeq(lastOp.subqs, 1, Len(lastOp.retrieved))
        /\ (pc = "analyze" /\ Len(lastOp.analyzed) = Len(lastOp.subqs))
               => lastOp.retrieved = lastOp.subqs

\* the planner answered four sub-questions and the loop has finished
C34_Witness ==
    /\ lastOp.op = "planned"
    /\ Len(NonBlankLines(lastOp.lines)) = 4
    /\ pc = "analyze"
    /\ Len(lastOp.retrieved) = 3

\* C35: the vector agent searches the query variants in the order
\* [original] + concepts + expansions and issues no further search once the
\* accumulated results hold at least 30 documents with score > 0.8; when the
\* threshold is never reached it searches every variant exactly once.
C35_VectorAgentStopsAtQualityBudget ==
    lastOp.op = "vector" =>
        LET queries == <<lastOp.processed_query.original>>
                           \o lastOp.processed_query.concepts
                           \o lastOp.processed_query.expansions
            n == Len(lastOp.searched)
        IN  /\ n <= Len(queries)
            /\ lastOp.searched = SubSeq(queries, 1, n)
            /\ \A k \in 1..(n - 1) : lastOp.high_quality[k] < 30
            /\ (pc = "returned" /\ lastOp.high_quality[n] < 30)
                   => lastOp.searched = queries
            /\ (pc = "searching" /\ n > 0) => lastOp.high_quality[n] < 30

\* the agent returned on the budget before it had searched every variant
C35_Witness ==
    /\ lastOp.op = "vector"
    /\ pc = "returned"
    /\ Len(lastOp.searched) > 1
    /\ Len(lastOp.searched) < 1 + Len(lastOp.processed_query.concepts)
                                + Len(lastOp.processed_query.expansions)
    /\ lastOp.high_quality[Len(lastOp.searched)] >= 30

\* the TTL the configuration assigns to an intent
ConfiguredTtl(c, intent) ==
    IF intent \in {"status", "general", "explain", "code"}
           /\ c.policy[intent] >= 0
    THEN c.policy[intent]
    ELSE c.default_ttl

\* C37: every cache entry written by query() has ttl equal to the cache_ttl
\* field of its Run Record, which is the configured TTL of the run's intent
\* (status 180, general 600, explain 600, code 90 by default) and the global
\* default TTL (900) for an intent without its own policy (config) or with a
\* negative configured value.
C37_EntryTtlIsIntentTtl ==
    \A k \in DOMAIN cacheDir :
        /\ cacheDir[k].ttl = cacheDir[k].payload.cache_ttl
        /\ cacheDir[k].ttl = ConfiguredTtl(cfg, cacheDir[k].payload.intent)
        /\ (cfg.policy = DefaultPolicy /\ cfg.default_ttl = DefaultTtlSeconds)
               => cacheDir[k].ttl =
                      CASE cacheDir[k].payload.intent = "status" -> 180
                        [] cacheDir[k].payload.intent = "code" -> 90
                        [] cacheDir[k].payload.intent = "config" -> 900
                        [] OTHER -> 600

\* entries of an intent with a negative configured value and of the config
\* intent, both with the global default TTL
C37_Witness ==
    /\ cfg.policy["status"] < 0
    /\ \E k \in DOMAIN cacheDir :
           /\ cacheDir[k].payload.intent = "status"
           /\ cacheDir[k].ttl = cfg.default_ttl
    /\ \E k \in DOMAIN cacheDir :
           /\ cacheDir[k].payload.intent = "config"
           /\ cacheDir[k].ttl = cfg.default_ttl

\* the step is a run of query() that ends as a cache hit
CacheHitStep ==
    /\ run'.n = run.n + 1
    /\ pc' = "done"
    /\ run'.cached

\* C38: a cache hit leaves the cache unchanged: the run invokes no retriever,
\* re-ranker or main LLM call and does not write, rewrite or touch any cache
\* entry, so the entry still expires ttl seconds after its original write
\* however many hits occur in between; the stored payload always has
\* from_cache = false.
C38_CacheHitLeavesCacheUnchanged ==
    /\ [][CacheHitStep =>
             /\ cacheDir' = cacheDir
             /\ fsTime' = fsTime
             /\ run'.retrievals = 0
             /\ run'.agentCalls = 0
             /\ run'.rerankCalls = 0
             /\ run'.llmCalls = 0
             /\ run'.cache_key \in DOMAIN cacheDir
             /\ \/ cacheDir[run'.cache_key].ttl = 0
                \/ clock - cacheDir[run'.cache_key].ts
                       <= cacheDir[run'.cache_key].ttl]_vars
    /\ [](\A k \in DOMAIN cacheDir : ~cacheDir[k].payload.from_cache)

\* a run served from an entry written 100 seconds earlier
C38_Witness ==
    /\ pc = "done"
    /\ run.cached
    /\ run.cache_key \in DOMAIN cacheDir
    /\ clock - cacheDir[run.cache_key].ts = 100
    /\ runLog[Len(runLog)].cache_hit

\* C40: starting from empty log and metrics files, after any sequence of
\* sequential log_run calls the metrics file has total_runs = number of lines
\* of the run log, cache_hits = number of logged entries with cache_hit, and
\* cache_hits <= total_runs.
C40_MetricsCountTheRunLog ==
    Len(runLog) > 0 =>
        /\ metrics.exists /\ metrics.parses
        /\ metrics.data.total_runs = Len(runLog)
        /\ metrics.data.cache_hits =
               Cardinality({i \in DOMAIN runLog : runLog[i].cache_hit})
        /\ metrics.data.cache_hits <= metrics.data.total_runs

\* three or more runs logged, some of them cache hits and some not
C40_Witness ==
    /\ Len(runLog) >= 3
    /\ metrics.exists /\ metrics.parses
    /\ metrics.data.cache_hits >= 1
    /\ metrics.data.cache_hits < metrics.data.total_runs

====
